---- MODULE Spec2Model ----
(***************************************************************************)
(* Task lifecycle of the FinGOAT API gateway: the trading controller       *)
(* (backend/controllers/trading_controller.go) over the tables             *)
(* trading_analysis_tasks and trading_decisions, and the external          *)
(* analysis provider it calls over HTTP.                                   *)
(***************************************************************************)
EXTENDS Integers, Sequences, FiniteSets, TLC

(***************************************************************************)
(* Bounds of the model.                                                    *)
(***************************************************************************)
MaxTasks == 1
MaxDecisions == 2
MaxRequests == 2
MaxListed == 25
MaxCounted == 5

(***************************************************************************)
(* HTTP status codes used by the handlers (net/http constants).            *)
(***************************************************************************)
StatusOK == 200
StatusAccepted == 202
StatusBadRequest == 400
StatusUnauthorized == 401
StatusNotFound == 404
StatusInternalServerError == 500
StatusBadGateway == 502
StatusServiceUnavailable == 503

(***************************************************************************)
(* Column widths of trading_analysis_tasks (the varchar(n) of the gorm     *)
(* tags); PostgreSQL rejects a longer value.                               *)
(***************************************************************************)
TaskIDWidth == 100
TickerWidth == 10
DateWidth == 20
StatusWidth == 20

(* Column width of trading_decisions.action. *)
ActionWidth == 10

(* Limit(20) of ListUserAnalyses. *)
ListLimit == 20

(***************************************************************************)
(* JSON values, tagged by their JSON type.                                 *)
(***************************************************************************)
JStr(s) == [t |-> "string", s |-> s]
JNum(n) == [t |-> "number", n |-> n]
JArr(a) == [t |-> "array", a |-> a]
JObj(o) == [t |-> "object", o |-> o]
JNull == [t |-> "null"]
JInvalid == [t |-> "invalid"]

IsStr(v) == v.t = "string"
IsObj(v) == v.t = "object"
Has(o, k) == k \in DOMAIN o

(* An HTTP body: its text as (leading whitespace, core, trailing           *)
(* whitespace) and the value encoding/json decodes it to.                  *)
Body(lead, core, trail, json) ==
    [lead |-> lead, core |-> core, trail |-> trail, json |-> json]

(* strings.TrimSpace(string(body)) *)
TrimSpace(body) == body.core

(* errResp[k].(string): the string under key k, ok = FALSE when the key is *)
(* absent or holds another type.                                           *)
StringField(o, k) ==
    IF Has(o, k) /\ IsStr(o[k]) THEN [ok |-> TRUE, s |-> o[k].s]
    ELSE [ok |-> FALSE, s |-> ""]

(* Mutant: the body is never decoded, the generic message is always used. *)
extractTradingServiceError_Generic(body, statusCode) ==
    IF TrimSpace(body) # "" THEN TrimSpace(body)
    ELSE "trading service returned status " \o ToString(statusCode)

(* Mutant: message is looked at before detail. *)
extractTradingServiceError_MessageFirst(body, statusCode) ==
    IF IsObj(body.json) /\ StringField(body.json.o, "error").s = ""
       /\ StringField(body.json.o, "message").s # ""
    THEN StringField(body.json.o, "message").s
    ELSE extractTradingServiceError_Generic(body, statusCode)

extractTradingServiceError(body, statusCode) ==
    LET generic ==
            IF TrimSpace(body) # "" THEN TrimSpace(body)
            ELSE "trading service returned status " \o ToString(statusCode)
    IN  IF ~IsObj(body.json) THEN generic
        ELSE
        LET errResp == body.json.o
            e == StringField(errResp, "error")
            m == StringField(errResp, "message")
            fromDetail ==
                IF ~Has(errResp, "detail") THEN ""
                ELSE LET d == errResp["detail"] IN
                     IF d.t = "string" THEN d.s
                     ELSE IF d.t = "array" /\ Len(d.a) > 0 /\ IsObj(d.a[1])
                          THEN StringField(d.a[1].o, "msg").s
                          ELSE ""
        IN  IF e.ok /\ e.s # "" THEN e.s
            ELSE IF fromDetail # "" THEN fromDetail
            ELSE IF m.ok /\ m.s # "" THEN m.s
            ELSE generic

(***************************************************************************)
(* json.Unmarshal(body, &pythonResp): the fields of PythonServiceResponse   *)
(* the controller reads.  A key that is absent or null leaves the zero      *)
(* value; a value of the wrong JSON type is an unmarshal error.             *)
(***************************************************************************)
NoDecision == [nil |-> TRUE]

FieldOK(o, k, t) == ~Has(o, k) \/ o[k].t \in {t, "null"}
StrOrZero(o, k) == IF Has(o, k) /\ IsStr(o[k]) THEN o[k].s ELSE ""
NumOrZero(o, k) == IF Has(o, k) /\ o[k].t = "number" THEN o[k].n ELSE 0
MapOrNil(o, k) ==
    IF Has(o, k) /\ IsObj(o[k]) THEN [nil |-> FALSE, m |-> o[k].o] ELSE NoDecision

UnmarshalPythonServiceResponse(body) ==
    IF ~IsObj(body.json) THEN [ok |-> FALSE]
    ELSE LET o == body.json.o IN
         IF ~(/\ FieldOK(o, "task_id", "string")
              /\ FieldOK(o, "status", "string")
              /\ FieldOK(o, "decision", "object")
              /\ FieldOK(o, "analysis_report", "object")
              /\ FieldOK(o, "error", "string")
              /\ FieldOK(o, "completed_at", "string")
              /\ FieldOK(o, "processing_time_seconds", "number"))
         THEN [ok |-> FALSE]
         ELSE [ok |-> TRUE,
               TaskID |-> StrOrZero(o, "task_id"),
               Status |-> StrOrZero(o, "status"),
               Decision |-> MapOrNil(o, "decision"),
               AnalysisReport |-> MapOrNil(o, "analysis_report"),
               Error |-> StrOrZero(o, "error"),
               CompletedAt |-> StrOrZero(o, "completed_at"),
               ProcessingTimeSeconds |-> NumOrZero(o, "processing_time_seconds")]

(***************************************************************************)
(* time.Parse(time.RFC3339, s): the instant, or the zero time when s is    *)
(* not an RFC3339 timestamp (the controller drops the error).              *)
(***************************************************************************)
ZeroTime == "0001-01-01 00:00:00 +0000 UTC"
NullTime == "NULL"

ParseRFC3339(s) ==
    IF s = "2024-05-10T12:05:30Z" THEN "2024-05-10 12:05:30 +0000 UTC"
    ELSE IF s = "2024-05-11T08:00:00+08:00" THEN "2024-05-11 08:00:00 +0800 +0800"
    ELSE ZeroTime

(***************************************************************************)
(* Callers, requests and the provider's answers the model draws from.      *)
(***************************************************************************)
NoUser == 0
Users == {1, 2}
TaskIDs == {"abc-123", "def-456"}
MoreTaskIDs == TaskIDs \cup {"ghi-789"}

(* AnalysisRequest bodies: two valid ones, one whose ticker is longer than *)
(* the column, one per missing field.                                      *)
AnalysisRequests ==
    { [Ticker |-> "NVDA", Date |-> "2024-05-10"],
      [Ticker |-> "AAPL", Date |-> "2024-06-03"],
      [Ticker |-> "BRK.B-CLASS", Date |-> "2024-06-03"],
      [Ticker |-> "",     Date |-> "2024-05-10"],
      [Ticker |-> "NVDA", Date |-> ""] }

(* The requests the reconcile specifications submit: one valid, one not. *)
FewRequests ==
    { [Ticker |-> "NVDA", Date |-> "2024-05-10"],
      [Ticker |-> "",     Date |-> "2024-05-10"] }

(* A transport failure of the HTTP client (timeout, refused connection). *)
NetError(msg) == [kind |-> "error", err |-> msg]
HTTP(code, body) == [kind |-> "http", code |-> code, body |-> body]

Timeout == NetError("context deadline exceeded (Client.Timeout exceeded)")
Refused == NetError("connect: connection refused")
(* No call: the handler answered before reaching the provider. *)
NotCalled == [kind |-> "none"]

NoBody == Body(0, "", 0, JInvalid)
TextBody == Body(1, "Internal Server Error", 1, JInvalid)
DetailBody == Body(0, "{\"detail\":\"model timeout\"}", 0,
                   JObj([detail |-> JStr("model timeout")]))

(* The envelope POST /api/v1/analyze answers with. *)
AcceptedBody(taskID, status) ==
    Body(0, "{task}", 0,
         JObj(IF status = "omitted"
              THEN [task_id |-> JStr(taskID)]
              ELSE [task_id |-> JStr(taskID), status |-> JStr(status)]))

AnalyzeResponses(ids) ==
    { Timeout, Refused,
      HTTP(StatusInternalServerError, DetailBody),
      HTTP(StatusOK, AcceptedBody("abc-123", "pending")),
      HTTP(StatusAccepted, TextBody),
      HTTP(StatusAccepted, AcceptedBody("", "pending")) }
    \cup { HTTP(StatusAccepted, AcceptedBody(t, s)) :
               t \in ids, s \in {"pending", "processing", "omitted"} }

(* The envelope GET /api/v1/analysis/{task_id} answers with. *)
BuyDecision == JObj([action |-> JStr("BUY"), confidence |-> JNum(85)])
SellDecision ==
    JObj([action |-> JStr("SELL"), confidence |-> JNum(60),
          raw_decision |-> JObj([text |-> JStr("SELL")])])
LongActionDecision == JObj([action |-> JStr("STRONG SELL"), confidence |-> JNum(90)])
NoActionDecision == JObj([confidence |-> JNum(85)])
NoConfidenceDecision == JObj([action |-> JStr("HOLD")])

StatusBodies ==
    { Body(0, "{pending}", 0, JObj([status |-> JStr("pending")])),
      Body(0, "{processing}", 0, JObj([status |-> JStr("processing")])),
      Body(0, "{failed}", 0,
           JObj([status |-> JStr("failed"), error |-> JStr("agent crashed")])),
      Body(0, "{failed,no error}", 0, JObj([status |-> JStr("failed")])),
      Body(0, "{failed,completed_at}", 0,
           JObj([status |-> JStr("failed"), error |-> JStr("analysis timed out"),
                 completed_at |-> JStr("2024-05-11T08:00:00+08:00")])),
      Body(0, "{completed,BUY}", 0,
           JObj([status |-> JStr("completed"), decision |-> BuyDecision,
                 completed_at |-> JStr("2024-05-10T12:05:30Z"),
                 processing_time_seconds |-> JNum(330)])),
      Body(0, "{completed,SELL}", 0,
           JObj([status |-> JStr("completed"), decision |-> SellDecision,
                 analysis_report |-> JObj([market_report |-> JStr("...")]),
                 completed_at |-> JStr("yesterday")])),
      Body(0, "{completed,null decision}", 0,
           JObj([status |-> JStr("completed"), decision |-> JNull])),
      Body(0, "{completed,long action}", 0,
           JObj([status |-> JStr("completed"), decision |-> LongActionDecision,
                 processing_time_seconds |-> JNum(12)])),
      Body(0, "{completed,no action}", 0,
           JObj([status |-> JStr("completed"), decision |-> NoActionDecision])),
      Body(0, "{completed,no confidence}", 0,
           JObj([status |-> JStr("completed"),
                 decision |-> NoConfidenceDecision])),
      Body(0, "{}", 0, JObj(<<>>)),
      Body(0, "{status:3}", 0, JObj([status |-> JNum(3)])),
      TextBody }

StatusResponses ==
    { Refused,
      HTTP(StatusInternalServerError, DetailBody),
      HTTP(StatusNotFound, NoBody) }
    \cup { HTTP(StatusOK, b) : b \in StatusBodies }

(***************************************************************************)
(* State.                                                                  *)
(*   tasks, decisions: the tables trading_analysis_tasks and               *)
(*     trading_decisions, rows in primary-key order (rows are never        *)
(*     deleted, so a row's ID is its position).                            *)
(*   requests: the GetAnalysisResult handlers in flight, each with its     *)
(*     position and its in-memory copy of the task.                        *)
(*   resp: what the step just taken answered its caller (NoResponse when   *)
(*     the step answered nobody).                                          *)
(*   providerIO: the call the step just taken made to the provider and     *)
(*     the provider's answer (NoCall when it made none).                   *)
(*     Both describe one step only: ResponseSent clears them before the    *)
(*     next handler step is taken.                                         *)
(*   wasCompleted: IDs of the task rows whose stored status has been       *)
(*     "completed" at some time.                                           *)
(***************************************************************************)
VARIABLES tasks, decisions, requests, resp, providerIO, wasCompleted,
          poller, articles, cache, handlers, feeds

vars == <<tasks, decisions, requests, resp, providerIO, wasCompleted,
          poller, articles, cache, handlers, feeds>>

(* The variables of the client and of the article handlers. *)
ext == <<poller, articles, cache, handlers, feeds>>

TaskColumns ==
    {"ID", "CreatedAt", "UserID", "TaskID", "Ticker", "AnalysisDate", "Status",
     "CompletedAt", "ProcessingTimeSeconds", "Error"}

NilDecision == [nil |-> TRUE]
Idle == [pc |-> "idle"]
NoResponse == [op |-> "none"]
NoCall == [call |-> "none"]

(* A response: the handler, the caller's user_id, the request's input (the  *)
(* AnalysisRequest of a submit, the :task_id of a reconcile), the HTTP      *)
(* status code and the JSON body.                                           *)
Response(op, user, input, code, body) ==
    [op |-> op, user |-> user, input |-> input, code |-> code, body |-> body]
ErrorBody(msg) == [error |-> msg]
ProviderCall(endpoint, taskID, presp) ==
    [call |-> endpoint, task_id |-> taskID, presp |-> presp]

Max(S) == CHOOSE x \in S : \A y \in S : y <= x
Min(S) == CHOOSE x \in S : \A y \in S : x <= y

(* The row of an in-memory task: its columns, without the association. *)
Row(task) == [c \in TaskColumns |-> task[c]]

(* Preload("Decision"): the has-one association is filled from the rows of *)
(* trading_decisions with the task's task_id, the last one read winning.   *)
PreloadDecision(row, ds) ==
    LET hits == {i \in 1..Len(ds) : ds[i].TaskID = row.TaskID}
    IN  IF hits = {} THEN NilDecision ELSE ds[Max(hits)]

WithDecision(row, d) == [c \in TaskColumns \cup {"Decision"} |->
                            IF c = "Decision" THEN d ELSE row[c]]

(* Mutant: the lookup filters on task_id only. *)
FirstTask_AnyOwner(ts, taskID, userID) ==
    LET hits == {i \in 1..Len(ts) : ts[i].TaskID = taskID}
    IN  IF hits = {} THEN 0 ELSE Min(hits)

(* Where("task_id = ? AND user_id = ?").First: the matching row with the   *)
(* smallest primary key, 0 for ErrRecordNotFound.                          *)
FirstTask(ts, taskID, userID) ==
    LET hits == {i \in 1..Len(ts) :
                    ts[i].TaskID = taskID /\ ts[i].UserID = userID}
    IN  IF hits = {} THEN 0 ELSE Min(hits)

(* Mutant: the save is lost, the table keeps the row as it was. *)
SaveTask_Dropped(ts, task) == ts

(* DB.Save(&task): every column of the row with the task's primary key is  *)
(* overwritten from the in-memory struct.                                  *)
SaveTask(ts, task) == [ts EXCEPT ![task.ID] = Row(task)]

(* Mutant: trading_analysis_tasks.task_id has no unique index. *)
TaskIDTaken_Never(ts, taskID) == FALSE

(* The unique index on trading_analysis_tasks.task_id. *)
TaskIDTaken(ts, taskID) == \E i \in 1..Len(ts) : ts[i].TaskID = taskID

(* time.Now() of gorm's Create, which fills gorm.Model.CreatedAt: the      *)
(* clock has ticked once per row inserted so far.                          *)
Now(ts) == Len(ts) + 1

(* The decision's strings fit their varchar columns. *)
DecisionFitsColumns(d) ==
    /\ Len(d.TaskID) <= TaskIDWidth
    /\ Len(d.Action) <= ActionWidth

(* The row's strings fit their varchar columns. *)
FitsColumns(row) ==
    /\ Len(row.TaskID) <= TaskIDWidth
    /\ Len(row.Ticker) <= TickerWidth
    /\ Len(row.AnalysisDate) <= DateWidth
    /\ Len(row.Status) <= StatusWidth

Completed(ts) == {i \in 1..Len(ts) : ts[i].Status = "completed"}

(* Mutant: a failed task is polled again. *)
IsInFlight_FailedToo(status) ==
    status = "pending" \/ status = "processing" \/ status = "failed"

(* Mutant: a completed task is polled again. *)
IsInFlight_CompletedToo(status) ==
    status = "pending" \/ status = "processing" \/ status = "completed"

(* Line 161: the statuses for which the provider is asked. *)
IsInFlight(status) == status = "pending" \/ status = "processing"

(* Nothing is left to observe of the step before. *)
Observed == resp = NoResponse /\ providerIO = NoCall

(* The client has started no poll loop; the article table and the cache    *)
(* are empty, no article handler is running and no feed has an item.       *)
NoPoll == [pc |-> "idle"]
NoEntry == [present |-> FALSE]

ExtInit ==
    /\ poller = NoPoll
    /\ articles = <<>>
    /\ cache = NoEntry
    /\ handlers = <<>>
    /\ feeds = <<>>

Init ==
    /\ tasks = <<>>
    /\ decisions = <<>>
    /\ requests = [r \in 1..MaxRequests |-> Idle]
    /\ resp = NoResponse
    /\ providerIO = NoCall
    /\ wasCompleted = {}
    /\ ExtInit

(***************************************************************************)
(* RequestAnalysis: POST /api/trading/analyze.  caller is the user_id the  *)
(* auth middleware put in the context (NoUser: none), presp the provider's *)
(* answer to POST /api/v1/analyze.                                         *)
(***************************************************************************)
(* Mutant: any 2xx answer of the provider counts as accepted. *)
Accepted_Any2xx(code) == code \in 200..299

(* Line 104: the provider accepted the request. *)
Accepted(code) == code = StatusAccepted

(* Mutant: the status is stored as reported, "pending" not filled in. *)
NewTask_NoDefaultStatus(ts, caller, req, pythonResp) ==
    [ID |-> Len(ts) + 1,
     CreatedAt |-> Now(ts),
     UserID |-> caller,
     TaskID |-> pythonResp.TaskID,
     Ticker |-> req.Ticker,
     AnalysisDate |-> req.Date,
     Status |-> pythonResp.Status,
     CompletedAt |-> NullTime,
     ProcessingTimeSeconds |-> 0,
     Error |-> ""]

NewTask(ts, caller, req, pythonResp) ==
    [ID |-> Len(ts) + 1,
     CreatedAt |-> Now(ts),
     UserID |-> caller,
     TaskID |-> pythonResp.TaskID,
     Ticker |-> req.Ticker,
     AnalysisDate |-> req.Date,
     Status |-> IF pythonResp.Status = "" THEN "pending" ELSE pythonResp.Status,
     CompletedAt |-> NullTime,
     ProcessingTimeSeconds |-> 0,
     Error |-> ""]

(* What the handler does once the provider has been called: the response   *)
(* to the caller and the row to insert (create = FALSE: none).             *)
RequestAnalysisOutcome(ts, caller, req, presp) ==
    IF presp.kind = "error" THEN
        [create |-> FALSE, code |-> StatusInternalServerError,
         body |-> ErrorBody("failed to call trading service: " \o presp.err)]
    ELSE IF ~Accepted(presp.code) THEN
        [create |-> FALSE, code |-> StatusBadGateway,
         body |-> ErrorBody(extractTradingServiceError(presp.body, presp.code))]
    ELSE LET pythonResp == UnmarshalPythonServiceResponse(presp.body) IN
    IF ~pythonResp.ok THEN
        [create |-> FALSE, code |-> StatusInternalServerError,
         body |-> ErrorBody("failed to parse response: invalid character")]
    ELSE IF pythonResp.TaskID = "" THEN
        [create |-> FALSE, code |-> StatusBadGateway,
         body |-> ErrorBody("trading service did not return a task_id")]
    ELSE IF TaskIDTaken(ts, pythonResp.TaskID) THEN
        [create |-> FALSE, code |-> StatusInternalServerError,
         body |-> ErrorBody("failed to save task: duplicate key value violates unique constraint")]
    ELSE IF ~FitsColumns(NewTask(ts, caller, req, pythonResp)) THEN
        [create |-> FALSE, code |-> StatusInternalServerError,
         body |-> ErrorBody("failed to save task: value too long for type character varying")]
    ELSE
        [create |-> TRUE, code |-> StatusAccepted,
         body |-> NewTask(ts, caller, req, pythonResp)]

RequestAnalysis(caller, req, presp) ==
    /\ Observed
    /\ UNCHANGED <<decisions, requests>>
    /\ presp = NotCalled <=> (req.Ticker = "" \/ req.Date = "" \/ caller = NoUser)
    /\ IF req.Ticker = "" \/ req.Date = "" THEN
           /\ resp' = Response("RequestAnalysis", caller, req, StatusBadRequest,
                               ErrorBody("Key: 'AnalysisRequest' Error:Field validation failed on the 'required' tag"))
           /\ providerIO' = NoCall
           /\ UNCHANGED <<tasks, wasCompleted>>
       ELSE IF caller = NoUser THEN
           /\ resp' = Response("RequestAnalysis", caller, req, StatusUnauthorized,
                               ErrorBody("user not authenticated"))
           /\ providerIO' = NoCall
           /\ UNCHANGED <<tasks, wasCompleted>>
       ELSE LET out == RequestAnalysisOutcome(tasks, caller, req, presp) IN
           /\ providerIO' = ProviderCall("analyze", "", presp)
           /\ resp' = Response("RequestAnalysis", caller, req, out.code, out.body)
           /\ tasks' = IF out.create THEN Append(tasks, out.body) ELSE tasks
           /\ wasCompleted' = wasCompleted \cup Completed(tasks')

(***************************************************************************)
(* GetAnalysisResult: GET /api/trading/analysis/:task_id (reconcile).      *)
(* The handler reads the task, calls the provider, inserts the decision    *)
(* and saves the task in separate database statements with no transaction  *)
(* or lock around them, so handlers of concurrent requests interleave at   *)
(* these statements.  A request r is at                                    *)
(*   "idle"  not started (or answered),                                    *)
(*   "poll"  task read and found non-terminal, provider not yet called,    *)
(*   "save"  decision inserted, task not yet saved.                        *)
(***************************************************************************)
Answer(r, caller, taskID, code, body) ==
    /\ resp' = Response("GetAnalysisResult", caller, taskID, code, body)
    /\ requests' = [requests EXCEPT ![r] = Idle]

(* Lines 141-161: authentication, the lookup by task_id and user_id, and   *)
(* the short cut for a task that is neither pending nor processing.        *)
GetAnalysisResult_Load(r, caller, taskID) ==
    /\ Observed
    /\ requests[r].pc = "idle"
    /\ \A q \in 1..(r - 1) : requests[q].pc # "idle"
    /\ providerIO' = NoCall
    /\ UNCHANGED <<tasks, decisions, wasCompleted>>
    /\ IF caller = NoUser THEN
           Answer(r, caller, taskID, StatusUnauthorized,
                  ErrorBody("user not authenticated"))
       ELSE LET i == FirstTask(tasks, taskID, caller) IN
       IF i = 0 THEN
           Answer(r, caller, taskID, StatusNotFound, ErrorBody("task not found"))
       ELSE LET task == WithDecision(tasks[i], PreloadDecision(tasks[i], decisions)) IN
       IF ~IsInFlight(task.Status) THEN
           Answer(r, caller, taskID, StatusOK, task)
       ELSE
           /\ resp' = NoResponse
           /\ requests' = [requests EXCEPT ![r] =
                  [pc |-> "poll", caller |-> caller, taskID |-> taskID,
                   task |-> task, calls |-> 0, inserted |-> FALSE]]

(* pythonResp.Decision["action"].(string) and ["confidence"].(float64):    *)
(* both assertions succeed only on a string and a number.                  *)
DecisionAssertionsHold(m) ==
    /\ Has(m, "action") /\ m["action"].t = "string"
    /\ Has(m, "confidence") /\ m["confidence"].t = "number"

(* Lines 203-221: the TradingDecision built from the provider's payload.   *)
NewDecision(ds, taskID, pythonResp) ==
    LET m == pythonResp.Decision.m IN
    [ID |-> Len(ds) + 1,
     TaskID |-> taskID,
     Action |-> m["action"].s,
     Confidence |-> m["confidence"].n,
     AnalysisReport |-> IF pythonResp.AnalysisReport.nil THEN [null |-> TRUE]
                        ELSE [null |-> FALSE, json |-> pythonResp.AnalysisReport.m],
     RawDecision |-> IF Has(m, "raw_decision") /\ IsObj(m["raw_decision"])
                     THEN [null |-> FALSE, json |-> m["raw_decision"].o]
                     ELSE [null |-> TRUE]]

(* Mutant: the error text is recorded, the status left as it was. *)
Failed_StatusKept(task, msg) == [task EXCEPT !.Error = msg]

Failed(task, msg) == [task EXCEPT !.Status = "failed", !.Error = msg]

(* Mutant: the provider's status is not copied onto the task. *)
Updated_StatusKept(task, pythonResp) ==
    IF pythonResp.Status = "failed"
    THEN [task EXCEPT !.Error = pythonResp.Error]
    ELSE task

(* Mutant: a failure the provider reports leaves the error text empty. *)
Updated_NoError(task, pythonResp) ==
    [task EXCEPT !.Status = pythonResp.Status]

(* Mutant: the completion time is copied whenever the provider sends one. *)
Updated_TimestampAlways(task, pythonResp) ==
    LET t1 == [task EXCEPT !.Status = pythonResp.Status,
                           !.CompletedAt =
                               IF pythonResp.CompletedAt # ""
                               THEN ParseRFC3339(pythonResp.CompletedAt)
                               ELSE task.CompletedAt]
    IN  IF pythonResp.Status = "failed"
        THEN [t1 EXCEPT !.Error = pythonResp.Error]
        ELSE t1

(* Lines 190-229 on the in-memory task, decision excluded. *)
Updated(task, pythonResp) ==
    LET t1 == [task EXCEPT !.Status = pythonResp.Status]
        t2 == IF pythonResp.Status = "completed" /\ ~pythonResp.Decision.nil
              THEN [t1 EXCEPT
                      !.CompletedAt =
                          IF pythonResp.CompletedAt # ""
                          THEN ParseRFC3339(pythonResp.CompletedAt)
                          ELSE t1.CompletedAt,
                      !.ProcessingTimeSeconds = pythonResp.ProcessingTimeSeconds]
              ELSE t1
    IN  IF pythonResp.Status = "failed"
        THEN [t2 EXCEPT !.Error = pythonResp.Error]
        ELSE t2

(* DB.Save(&task) followed by the handler's response. *)
SaveAndAnswer(r, task, code, body) ==
    /\ tasks' = SaveTask(tasks, task)
    /\ wasCompleted' = wasCompleted \cup Completed(tasks')
    /\ Answer(r, requests[r].caller, requests[r].taskID, code, body)

(* Lines 162-225: the provider call and what follows it up to the next     *)
(* database write.                                                         *)
GetAnalysisResult_Poll(r, presp) ==
    /\ Observed
    /\ requests[r].pc = "poll"
    /\ providerIO' = ProviderCall("status", requests[r].taskID, presp)
    /\ LET task == requests[r].task
           taskID == requests[r].taskID
       IN
       IF presp.kind = "error" THEN
           LET t == Failed(task, "failed to reach trading service: " \o presp.err)
           IN  /\ SaveAndAnswer(r, t, StatusBadGateway, ErrorBody(t.Error))
               /\ UNCHANGED decisions
       ELSE IF presp.code # StatusOK THEN
           LET t == Failed(task, extractTradingServiceError(presp.body, presp.code))
           IN  /\ SaveAndAnswer(r, t, StatusOK, t)
               /\ UNCHANGED decisions
       ELSE LET pythonResp == UnmarshalPythonServiceResponse(presp.body) IN
       IF ~pythonResp.ok THEN
           LET t == Failed(task, "failed to parse trading service response: invalid character")
           IN  /\ SaveAndAnswer(r, t, StatusOK, t)
               /\ UNCHANGED decisions
       ELSE IF pythonResp.Status = "completed" /\ ~pythonResp.Decision.nil THEN
           IF ~DecisionAssertionsHold(pythonResp.Decision.m) THEN
               (* The type assertion panics; gin's Recovery answers 500 and *)
               (* nothing has been written.                                 *)
               /\ Answer(r, requests[r].caller, taskID,
                         StatusInternalServerError, [empty |-> TRUE])
               /\ UNCHANGED <<tasks, decisions, wasCompleted>>
           ELSE
               (* DB.Create(&decision), its error dropped: the row is       *)
               (* inserted unless a value is too long for its column, and   *)
               (* then the struct keeps the zero ID.                        *)
               LET decision == NewDecision(decisions, taskID, pythonResp)
                   fits == DecisionFitsColumns(decision)
               IN
               /\ Len(decisions) < MaxDecisions
               /\ decisions' = IF fits THEN Append(decisions, decision)
                                ELSE decisions
               /\ requests' = [requests EXCEPT ![r] =
                      [pc |-> "save", caller |-> requests[r].caller,
                       taskID |-> taskID,
                       task |-> [Updated(task, pythonResp) EXCEPT
                                    !.Decision = IF fits THEN decision
                                                 ELSE [decision EXCEPT !.ID = 0]],
                       calls |-> requests[r].calls + 1,
                       inserted |-> fits]]
               /\ resp' = NoResponse
               /\ UNCHANGED <<tasks, wasCompleted>>
       ELSE
           LET t == Updated(task, pythonResp)
           IN  /\ SaveAndAnswer(r, t, StatusOK, t)
               /\ UNCHANGED decisions

(* Lines 231-234 after DB.Create(&decision).  DB.Save(&task) updates the   *)
(* row and then upserts the Decision association inside one transaction:  *)
(* for a decision that has its ID the upsert changes nothing; for one      *)
(* whose insert failed it fails again, which rolls the row update back     *)
(* (the error is dropped here too).                                        *)
GetAnalysisResult_Save(r) ==
    /\ Observed
    /\ requests[r].pc = "save"
    /\ providerIO' = NoCall
    /\ UNCHANGED decisions
    /\ IF requests[r].inserted THEN
           SaveAndAnswer(r, requests[r].task, StatusOK, requests[r].task)
       ELSE
           /\ UNCHANGED <<tasks, wasCompleted>>
           /\ Answer(r, requests[r].caller, requests[r].taskID, StatusOK,
                     requests[r].task)

(***************************************************************************)
(* ListUserAnalyses: GET /api/trading/analyses.                            *)
(***************************************************************************)
(* Mutant: the rows are ordered oldest first. *)
RECURSIVE OrderByCreatedAtAsc(_, _)
OrderByCreatedAtAsc(ts, S) ==
    IF S = {} THEN <<>>
    ELSE LET i == CHOOSE x \in S : \A y \in S : ts[x].CreatedAt <= ts[y].CreatedAt
         IN  <<i>> \o OrderByCreatedAtAsc(ts, S \ {i})

(* Order("created_at DESC") over the rows S of ts: their primary keys,    *)
(* newest first.                                                           *)
RECURSIVE OrderByCreatedAtDesc(_, _)
OrderByCreatedAtDesc(ts, S) ==
    IF S = {} THEN <<>>
    ELSE LET i == CHOOSE x \in S : \A y \in S : ts[x].CreatedAt >= ts[y].CreatedAt
         IN  <<i>> \o OrderByCreatedAtDesc(ts, S \ {i})

(* Limit(n) *)
Limit(seq, n) == SubSeq(seq, 1, IF Len(seq) < n THEN Len(seq) ELSE n)

(* Where("user_id = ?").Preload("Decision").Order(...).Limit(20).Find *)
FindUserTasks(ts, ds, userID) ==
    LET ids == Limit(OrderByCreatedAtDesc(ts, {i \in 1..Len(ts) : ts[i].UserID = userID}),
                     ListLimit)
    IN  [k \in 1..Len(ids) |-> WithDecision(ts[ids[k]], PreloadDecision(ts[ids[k]], ds))]

(* Mutant: listing marks the caller's pending tasks failed. *)
ListUserAnalyses_Expiring(caller) ==
    /\ Observed
    /\ providerIO' = NoCall
    /\ UNCHANGED <<decisions, requests, wasCompleted>>
    /\ tasks' = [i \in 1..Len(tasks) |->
                    IF tasks[i].UserID = caller /\ tasks[i].Status = "pending"
                    THEN [tasks[i] EXCEPT !.Status = "failed", !.Error = "expired"]
                    ELSE tasks[i]]
    /\ resp' = Response("ListUserAnalyses", caller, "", StatusOK,
                        [tasks |-> FindUserTasks(tasks', decisions, caller),
                         total |-> Len(FindUserTasks(tasks', decisions, caller))])

ListUserAnalyses(caller) ==
    /\ Observed
    /\ providerIO' = NoCall
    /\ UNCHANGED <<tasks, decisions, requests, wasCompleted>>
    /\ IF caller = NoUser THEN
           resp' = Response("ListUserAnalyses", caller, "", StatusUnauthorized,
                            ErrorBody("user not authenticated"))
       ELSE LET found == FindUserTasks(tasks, decisions, caller) IN
           resp' = Response("ListUserAnalyses", caller, "", StatusOK,
                            [tasks |-> found, total |-> Len(found)])

(***************************************************************************)
(* GetAnalysisStats: GET /api/trading/stats.                               *)
(***************************************************************************)
(* Model(&TradingAnalysisTask{}).Where("user_id = ? AND status = ?").Count *)
CountTasks(ts, userID, statuses) ==
    Cardinality({i \in 1..Len(ts) :
                    ts[i].UserID = userID /\ ts[i].Status \in statuses})

CountUserTasks(ts, userID) ==
    Cardinality({i \in 1..Len(ts) : ts[i].UserID = userID})

(* Mutant: the decisions are counted per task, not per Decision row. *)
CountDecisions_PerTask(ts, ds, userID, action) ==
    Cardinality({i \in 1..Len(ts) :
                    /\ ts[i].UserID = userID
                    /\ \E j \in 1..Len(ds) :
                          ds[j].TaskID = ts[i].TaskID /\ ds[j].Action = action})

(* Table("trading_decisions").Joins(trading_analysis_tasks on task_id)     *)
(*   .Where("user_id = ? AND action = ?").Count: one per joined pair.      *)
CountDecisions(ts, ds, userID, action) ==
    Cardinality({p \in (1..Len(ds)) \X (1..Len(ts)) :
                    /\ ds[p[1]].TaskID = ts[p[2]].TaskID
                    /\ ts[p[2]].UserID = userID
                    /\ ds[p[1]].Action = action})

AnalysisStats(ts, ds, userID) ==
    LET total == CountUserTasks(ts, userID)
        completed == CountTasks(ts, userID, {"completed"})
        failed == CountTasks(ts, userID, {"failed"})
    IN  [total_analyses |-> total,
         completed |-> completed,
         failed |-> failed,
         pending |-> total - completed - failed,
         decisions |-> [buy |-> CountDecisions(ts, ds, userID, "BUY"),
                        sell |-> CountDecisions(ts, ds, userID, "SELL"),
                        hold |-> CountDecisions(ts, ds, userID, "HOLD")]]

GetAnalysisStats(caller) ==
    /\ Observed
    /\ providerIO' = NoCall
    /\ UNCHANGED <<tasks, decisions, requests, wasCompleted>>
    /\ IF caller = NoUser THEN
           resp' = Response("GetAnalysisStats", caller, "", StatusUnauthorized,
                            ErrorBody("user not authenticated"))
       ELSE
           resp' = Response("GetAnalysisStats", caller, "", StatusOK,
                            AnalysisStats(tasks, decisions, caller))

(***************************************************************************)
(* CheckServiceHealth: GET /api/trading/health.  presp is the provider's   *)
(* answer to GET /health; the handler does not read user_id.               *)
(***************************************************************************)
HealthBody == Body(0, "{\"status\":\"ok\"}", 0, JObj([status |-> JStr("ok")]))

HealthResponses ==
    { Refused,
      HTTP(StatusInternalServerError, TextBody),
      HTTP(StatusOK, HealthBody),
      HTTP(StatusOK, TextBody) }

CheckServiceHealth(caller, presp) ==
    /\ Observed
    /\ providerIO' = ProviderCall("health", "", presp)
    /\ UNCHANGED <<tasks, decisions, requests, wasCompleted>>
    /\ IF presp.kind = "error" THEN
           resp' = Response("CheckServiceHealth", caller, "", StatusServiceUnavailable,
                            [status |-> "unavailable",
                             message |-> "trading service is down: " \o presp.err])
       ELSE IF presp.code # StatusOK THEN
           resp' = Response("CheckServiceHealth", caller, "", StatusServiceUnavailable,
                            [status |-> "unavailable",
                             message |-> "trading service returned non-200 status"])
       ELSE
           resp' = Response("CheckServiceHealth", caller, "", StatusOK,
                            [status |-> "healthy",
                             trading_service |-> IF IsObj(presp.body.json)
                                                 THEN presp.body.json
                                                 ELSE JNull])

(* c.JSON has written the response and the handler step is over: what it  *)
(* answered and what it asked the provider are no longer current.          *)
ResponseSent ==
    /\ ~Observed
    /\ resp' = NoResponse
    /\ providerIO' = NoCall
    /\ UNCHANGED <<tasks, decisions, requests, wasCompleted>>
    /\ UNCHANGED ext

(***************************************************************************)
(* Specifications.                                                         *)
(*   Spec: requests arrive at any time, so reconciles of one task overlap; *)
(*     the task table holds at most MaxTasks rows.                         *)
(*   SerialSpec: a reconcile of a task starts only when no other reconcile *)
(*     of that task_id is in flight (the client polls serially); the task  *)
(*     table holds a row per task_id the provider can hand out.            *)
(*   SubmitSpec: RequestAnalysis alone, on every request shape and with a  *)
(*     provider that hands out more task_ids.                              *)
(*   AllSpec: SerialSpec with the three read-only handlers added.          *)
(*   ListSpec: ListUserAnalyses alone, over task tables of up to MaxListed *)
(*     rows left by earlier submits.                                       *)
(*   StatsSpec: GetAnalysisStats alone, over tables of up to MaxCounted    *)
(*     tasks left by earlier submits and reconciles.                       *)
(*   ExtractSpec: RequestAnalysis refused by the provider with every error *)
(*     body of ErrorBodies, which exercises extractTradingServiceError.    *)
(***************************************************************************)
Callers == Users \cup {NoUser}

InFlight(taskID) ==
    \E r \in 1..MaxRequests : requests[r].pc # "idle" /\ requests[r].taskID = taskID

Submit ==
    \E caller \in Callers, req \in FewRequests,
       presp \in AnalyzeResponses(TaskIDs) \cup {NotCalled} :
        /\ RequestAnalysis(caller, req, presp)
        /\ Len(tasks') <= MaxTasks
        /\ UNCHANGED ext

SerialSubmit ==
    \E caller \in Callers, req \in FewRequests,
       presp \in AnalyzeResponses(TaskIDs) \cup {NotCalled} :
        RequestAnalysis(caller, req, presp) /\ UNCHANGED ext

AnySubmit ==
    \E caller \in Callers, req \in AnalysisRequests,
       presp \in AnalyzeResponses(MoreTaskIDs) \cup {NotCalled} :
        RequestAnalysis(caller, req, presp) /\ UNCHANGED ext

Load ==
    \E r \in 1..MaxRequests, caller \in Callers, taskID \in TaskIDs :
        GetAnalysisResult_Load(r, caller, taskID) /\ UNCHANGED ext

SerialLoad ==
    \E r \in 1..MaxRequests, caller \in Callers, taskID \in TaskIDs :
        /\ ~InFlight(taskID)
        /\ GetAnalysisResult_Load(r, caller, taskID)
        /\ UNCHANGED ext

Poll ==
    \E r \in 1..MaxRequests, presp \in StatusResponses :
        GetAnalysisResult_Poll(r, presp) /\ UNCHANGED ext

Save == \E r \in 1..MaxRequests : GetAnalysisResult_Save(r) /\ UNCHANGED ext

Next == Submit \/ Load \/ Poll \/ Save \/ ResponseSent

SerialNext == SerialSubmit \/ SerialLoad \/ Poll \/ Save \/ ResponseSent

Spec == Init /\ [][Next]_vars

SerialSpec == Init /\ [][SerialNext]_vars

SubmitNext == AnySubmit \/ ResponseSent

SubmitSpec == Init /\ [][SubmitNext]_vars

List == \E caller \in Callers : ListUserAnalyses(caller) /\ UNCHANGED ext

Stats == \E caller \in Callers : GetAnalysisStats(caller) /\ UNCHANGED ext

Health ==
    \E caller \in Callers, presp \in HealthResponses :
        CheckServiceHealth(caller, presp) /\ UNCHANGED ext

AllNext ==
    SerialSubmit \/ SerialLoad \/ Poll \/ Save \/ List \/ Stats \/ Health
        \/ ResponseSent

AllSpec == Init /\ [][AllNext]_vars

(* Who submitted the i-th task: user 1 always, users 1 and 2 in turn, or   *)
(* user 2 every third time.                                                *)
OwnerPatterns == {"one", "alternate", "thirds"}

Owner(p, i) ==
    CASE p = "one" -> 1
      [] p = "alternate" -> IF i % 2 = 1 THEN 1 ELSE 2
      [] OTHER -> IF i % 3 = 0 THEN 2 ELSE 1

(* The task table after n accepted submits, the provider having handed out *)
(* the task_ids task-1, task-2, ...                                        *)
RECURSIVE Submitted(_, _)
Submitted(n, p) ==
    IF n = 0 THEN <<>>
    ELSE LET ts == Submitted(n - 1, p) IN
         Append(ts, NewTask(ts, Owner(p, n),
                            [Ticker |-> "NVDA", Date |-> "2024-05-10"],
                            [TaskID |-> "task-" \o ToString(n), Status |-> ""]))

ListInit ==
    /\ tasks \in {Submitted(n, p) : n \in 0..MaxListed, p \in OwnerPatterns}
    /\ decisions = <<>>
    /\ requests = [r \in 1..MaxRequests |-> Idle]
    /\ resp = NoResponse
    /\ providerIO = NoCall
    /\ wasCompleted = {}
    /\ ExtInit

ListNext == List \/ ResponseSent

ListSpec == ListInit /\ [][ListNext]_vars

(* The statuses reconciles leave on a row: the four named ones and the     *)
(* empty string of a provider answer without status.                       *)
StoredStatuses == {"pending", "processing", "completed", "failed", ""}

(* What reconciles left in trading_decisions for the completed tasks: one  *)
(* row each with the actions BUY, BUY, SELL in turn; one HOLD row each;    *)
(* two BUY rows each (overlapping reconciles); or none (null decisions).   *)
DecisionPatterns == {"mixed", "hold", "doubled", "none"}

ActionsFor(a, k) ==
    CASE a = "mixed" -> IF k % 3 = 0 THEN <<"SELL">> ELSE <<"BUY">>
      [] a = "hold" -> <<"HOLD">>
      [] a = "doubled" -> <<"BUY", "BUY">>
      [] OTHER -> <<>>

(* The tables after n submits by the owners of pattern p and reconciles    *)
(* that left the statuses sts and the decisions of pattern a.              *)
Reconciled(sts, p) ==
    [i \in 1..Len(sts) |-> [Submitted(Len(sts), p)[i] EXCEPT !.Status = sts[i]]]

RECURSIVE DecisionsLeft(_, _, _)
DecisionsLeft(ts, a, n) ==
    IF n = 0 THEN <<>>
    ELSE LET ds == DecisionsLeft(ts, a, n - 1)
             k == Cardinality({i \in 1..n : ts[i].Status = "completed"})
             acts == IF ts[n].Status = "completed" THEN ActionsFor(a, k) ELSE <<>>
         IN  ds \o [j \in 1..Len(acts) |->
                       [ID |-> Len(ds) + j, TaskID |-> ts[n].TaskID,
                        Action |-> acts[j], Confidence |-> 85,
                        AnalysisReport |-> [null |-> TRUE],
                        RawDecision |-> [null |-> TRUE]]]

StatsInit ==
    /\ \E n \in 0..MaxCounted, p \in OwnerPatterns, a \in DecisionPatterns :
          \E sts \in [1..n -> StoredStatuses] :
             /\ tasks = Reconciled(sts, p)
             /\ decisions = DecisionsLeft(tasks, a, n)
    /\ requests = [r \in 1..MaxRequests |-> Idle]
    /\ resp = NoResponse
    /\ providerIO = NoCall
    /\ wasCompleted = Completed(tasks)
    /\ ExtInit

StatsNext == Stats \/ ResponseSent

StatsSpec == StatsInit /\ [][StatsNext]_vars

(* A key of an error body: left out, or present with a value; tag is its   *)
(* text in the body.                                                       *)
Absent == [absent |-> TRUE, tag |-> ""]
Present(tag, v) == [absent |-> FALSE, tag |-> tag, v |-> v]

ErrorChoices ==
    { Absent,
      Present("\"error\":\"\"", JStr("")),
      Present("\"error\":\"quota exceeded\"", JStr("quota exceeded")),
      Present("\"error\":42", JNum(42)) }

DetailChoices ==
    { Absent,
      Present("\"detail\":\"\"", JStr("")),
      Present("\"detail\":\"model timeout\"", JStr("model timeout")),
      Present("\"detail\":[{\"msg\":\"field required\"},{\"msg\":\"second\"}]",
              JArr(<<JObj([msg |-> JStr("field required")]),
                     JObj([msg |-> JStr("second")])>>)),
      Present("\"detail\":[{\"msg\":\"\"}]", JArr(<<JObj([msg |-> JStr("")])>>)),
      Present("\"detail\":[{\"loc\":\"body\"}]", JArr(<<JObj([loc |-> JStr("body")])>>)),
      Present("\"detail\":[]", JArr(<<>>)),
      Present("\"detail\":[\"plain\"]", JArr(<<JStr("plain")>>)),
      Present("\"detail\":{\"msg\":\"nested\"}", JObj([msg |-> JStr("nested")])) }

MessageChoices ==
    { Absent,
      Present("\"message\":\"\"", JStr("")),
      Present("\"message\":\"try later\"", JStr("try later")) }

(* The JSON object with the chosen keys, and its text. *)
ErrorObject(e, d, m) ==
    LET ch == [error |-> e, detail |-> d, message |-> m]
        keys == {k \in {"error", "detail", "message"} : ~ch[k].absent}
    IN  Body(0, "{" \o e.tag \o "," \o d.tag \o "," \o m.tag \o "}", 0,
             JObj([k \in keys |-> ch[k].v]))

ErrorBodies ==
    { ErrorObject(e, d, m) :
          e \in ErrorChoices, d \in DetailChoices, m \in MessageChoices }
    \cup { NoBody, TextBody,
            Body(2, "", 1, JInvalid),
            Body(0, "null", 1, JNull),
            Body(0, "[\"down\"]", 0, JArr(<<JStr("down")>>)),
            Body(0, "\"down\"", 0, JStr("down")) }

ErrorCodes == {StatusOK, StatusInternalServerError, StatusServiceUnavailable}

RefusedSubmit ==
    \E caller \in Users, code \in ErrorCodes, body \in ErrorBodies :
        /\ RequestAnalysis(caller, [Ticker |-> "NVDA", Date |-> "2024-05-10"],
                           HTTP(code, body))
        /\ UNCHANGED ext

ExtractNext == RefusedSubmit \/ ResponseSent

ExtractSpec == Init /\ [][ExtractNext]_vars

(***************************************************************************)
(* The client's stage view (src/unnamed/part_006): buildStageProgress maps *)
(* the task the gateway answered to the status of the seven agent stages.  *)
(* JavaScript values are the tagged JSON values above, with Undefined for  *)
(* a missing property and JBool for booleans.                              *)
(***************************************************************************)
Undefined == [t |-> "undefined"]
JBool(b) == [t |-> "boolean", b |-> b]

(* obj[k] on a plain object. *)
Property(o, k) == IF k \in DOMAIN o THEN o[k] ELSE Undefined

(* String.prototype.trim on the strings the model uses. *)
Trim(s) ==
    IF s \in {"", " ", "   "} THEN ""
    ELSE IF s = "  Hold; risk is balanced.  " THEN "Hold; risk is balanced."
    ELSE s

PARALLEL_ANALYST_STAGE_KEYS ==
    <<"market_report", "sentiment_report", "news_report", "fundamentals_report",
      "valuation_report">>

PARALLEL_ANALYST_STAGE_SET ==
    {PARALLEL_ANALYST_STAGE_KEYS[i] : i \in DOMAIN PARALLEL_ANALYST_STAGE_KEYS}

AGENT_STAGES ==
    << [key |-> "market_report", label |-> "Technical"],
       [key |-> "sentiment_report", label |-> "Social Media"],
       [key |-> "news_report", label |-> "News"],
       [key |-> "fundamentals_report", label |-> "Fundamentals"],
       [key |-> "valuation_report", label |-> "Valuation"],
       [key |-> "investment_plan", label |-> "PM Engine"],
       [key |-> "final_trade_decision", label |-> "Risk Management"] >>

InParallelSet(key) == key \in PARALLEL_ANALYST_STAGE_SET

SEQUENTIAL_STAGE_KEYS ==
    LET keys == [i \in DOMAIN AGENT_STAGES |-> AGENT_STAGES[i].key]
        NotParallel(key) == ~InParallelSet(key)
    IN  SelectSeq(keys, NotParallel)

RECURSIVE hasValue(_)
hasValue(value) ==
    IF value.t \in {"null", "undefined"} THEN FALSE
    ELSE IF value.t = "string" THEN Len(Trim(value.s)) > 0
    ELSE IF value.t = "number" THEN value.n # 0
    ELSE IF value.t = "boolean" THEN value.b
    ELSE IF value.t = "array" THEN Len(value.a) > 0
    ELSE IF value.t = "object" THEN \E k \in DOMAIN value.o : hasValue(value.o[k])
    ELSE TRUE

(* A string holding JSON text: s is the text, json what JSON.parse makes   *)
(* of it (JInvalid when it throws).                                        *)
JText(s, json) == [t |-> "string", s |-> s, json |-> json]

(* The report object of a task, or JNull. *)
parseAnalysisReport(task) ==
    IF task.t \in {"null", "undefined"} THEN JNull
    ELSE LET own == Property(task.o, "analysis_report")
             decision == Property(task.o, "decision")
             raw == IF own.t \notin {"null", "undefined"} THEN own
                    ELSE IF decision.t = "object"
                         THEN Property(decision.o, "analysis_report")
                         ELSE Undefined
         IN  IF ~( \/ raw.t \in {"object", "array"}
                   \/ raw.t = "string" /\ raw.s # ""
                   \/ raw.t = "number" /\ raw.n # 0
                   \/ raw.t = "boolean" /\ raw.b )
             THEN JNull
             ELSE IF raw.t = "string"
                  THEN IF "json" \in DOMAIN raw /\ raw.json.t # "invalid"
                       THEN raw.json ELSE JNull
             ELSE IF raw.t = "object" THEN raw
             ELSE JNull

(* summarizeContent, on content of at most 180 characters. *)
summarizeContent(data) ==
    IF ~hasValue(data) THEN JNull
    ELSE IF data.t = "string" THEN JStr(Trim(data.s))
    ELSE IF data.t \in {"object", "array"} THEN [t |-> "string", stringify |-> data]
    ELSE JStr(ToString(IF data.t = "number" THEN data.n ELSE data.b))

(* Array.prototype.find by position: 0 when no element qualifies. *)
FirstMissing(report) ==
    LET missing == {i \in DOMAIN SEQUENTIAL_STAGE_KEYS :
                        ~hasValue(Property(report, SEQUENTIAL_STAGE_KEYS[i]))}
    IN  IF missing = {} THEN 0 ELSE Min(missing)

(* Mutant: a sequential stage without content is the current target       *)
(* whatever comes before it.                                               *)
IsCurrentSequentialTarget_Any(report, key) ==
    ~hasValue(Property(report, key))

IsCurrentSequentialTarget(report, key) ==
    /\ FirstMissing(report) # 0
    /\ key = SEQUENTIAL_STAGE_KEYS[FirstMissing(report)]

buildStageProgress(task) ==
    LET status0 == IF task.t \in {"null", "undefined"} THEN Undefined
                   ELSE Property(task.o, "status")
        baseStatus == IF status0.t \in {"null", "undefined"} THEN "pending"
                      ELSE status0.s
        parsed == parseAnalysisReport(task)
        report == IF parsed.t = "object" THEN parsed.o ELSE <<>>
        ownTimes == IF task.t \in {"null", "undefined"} THEN Undefined
                    ELSE Property(task.o, "stage_times")
        stageTimes == IF ownTimes.t = "object" THEN ownTimes
                      ELSE Property(report, "__stage_times")
        TimeOf(key) == IF stageTimes.t = "object" THEN Property(stageTimes.o, key)
                       ELSE Undefined
        parallelStagesCompleted ==
            \A i \in DOMAIN PARALLEL_ANALYST_STAGE_KEYS :
                hasValue(Property(report, PARALLEL_ANALYST_STAGE_KEYS[i]))
        StageOf(stage) ==
            LET content == Property(report, stage.key)
                hasContent == hasValue(content)
                isParallelAnalyst == InParallelSet(stage.key)
                stageStarted == TimeOf(stage.key).t # "undefined"
                canStartSequential == parallelStagesCompleted \/ stageStarted
                status ==
                    IF baseStatus = "failed" THEN "failed"
                    ELSE IF hasContent THEN "completed"
                    ELSE IF baseStatus = "processing" THEN
                        IF isParallelAnalyst THEN "processing"
                        ELSE IF canStartSequential
                                /\ (IsCurrentSequentialTarget(report, stage.key)
                                    \/ stageStarted)
                             THEN "processing" ELSE "pending"
                    ELSE "pending"
            IN  [key |-> stage.key, label |-> stage.label, status |-> status,
                 displayLabel |-> stage.label,
                 summary |-> summarizeContent(content),
                 content |-> content, hasContent |-> hasContent,
                 durationSeconds |-> TimeOf(stage.key)]
    IN  [i \in DOMAIN AGENT_STAGES |-> StageOf(AGENT_STAGES[i])]

(* The component renders the stages of the task it holds. *)
RenderStages(task) ==
    /\ Observed
    /\ resp' = [op |-> "buildStageProgress", input |-> task,
                body |-> buildStageProgress(task)]
    /\ providerIO' = NoCall
    /\ UNCHANGED <<tasks, decisions, requests, wasCompleted>>

(***************************************************************************)
(* StageSpec: buildStageProgress alone, on every task of ClientTasks.      *)
(***************************************************************************)
ParallelContent == {Undefined, JStr("   "), JStr("RSI 61, MACD positive")}

SequentialContent ==
    {Undefined, JStr("  Hold; risk is balanced.  "), JObj([rating |-> JNull]), JNum(0)}

(* The report objects: every stage key absent or with one of the contents. *)
Reports(parallel, sequential) ==
    LET par == [PARALLEL_ANALYST_STAGE_SET -> parallel]
        seq == [{"investment_plan", "final_trade_decision"} -> sequential]
        Object(c) == [k \in {k \in DOMAIN c : c[k] # Undefined} |-> c[k]]
    IN  {Object(p @@ s) : p \in par, s \in seq}

TaskStatuses == {"pending", "processing", "completed", "failed"}

StageTimeChoices ==
    {Undefined, JObj(<<>>), JObj([market_report |-> JNum(3)]),
     JObj([final_trade_decision |-> JNum(5)])}

ReportPlacements == {"task", "decision", "text"}

ClientTask(status, report, placement, times) ==
    LET base == [status |-> JStr(status)]
        placed ==
            IF placement = "task" THEN [analysis_report |-> JObj(report)]
            ELSE IF placement = "decision"
            THEN [decision |-> JObj([action |-> JStr("BUY"),
                                     analysis_report |-> JObj(report)])]
            ELSE [analysis_report |-> JText("{...}", JObj(report))]
        timed == IF times = Undefined THEN <<>> ELSE [stage_times |-> times]
    IN  JObj(base @@ placed @@ timed)

ClientTasks(statuses) ==
    {ClientTask(s, r, p, t) :
        s \in statuses, r \in Reports(ParallelContent, SequentialContent),
        p \in ReportPlacements, t \in StageTimeChoices}
    \cup {JNull,
          JObj([status |-> JStr("processing")]),
          JObj([status |-> JStr("processing"),
                analysis_report |-> JText("not json", JInvalid)]),
          JObj([status |-> JStr("processing"),
                analysis_report |->
                    JObj([market_report |-> JStr("RSI 61, MACD positive"),
                          __stage_times |-> JObj([investment_plan |-> JNum(12)])])])}

Render ==
    /\ Observed
    /\ \E task \in ClientTasks(TaskStatuses) : RenderStages(task)
    /\ UNCHANGED ext

StageNext == Render \/ ResponseSent

StageSpec == Init /\ [][StageNext]_vars

(***************************************************************************)
(* The client's poll loop (src/unnamed/part_007, pollAnalysisResult).      *)
(* poller is the one loop the component runs after a submit:               *)
(*   pc       "idle" not started, "check" about to call getAnalysisResult, *)
(*            "await" the call is with the gateway, "wait" in the timer    *)
(*            between two checks, "done" returned or thrown;               *)
(*   attempt  the loop counter; checks, waits: the calls made and the      *)
(*            timers run so far;                                           *)
(*   outcome  "task" (returned), "error" or "timeout" (thrown), with the   *)
(*            task or the message in result.                               *)
(***************************************************************************)
MaxPollAttempts == 3

PolledTaskIDs == {"task-1", "task-2"}

Polling(pc, p, attempt, checks, waits) ==
    [pc |-> pc, user |-> p.user, taskID |-> p.taskID,
     maxAttempts |-> p.maxAttempts, attempt |-> attempt, checks |-> checks,
     waits |-> waits, outcome |-> "", result |-> ""]

Ended(p, checks, outcome, result) ==
    [Polling("done", p, p.attempt, checks, p.waits)
        EXCEPT !.outcome = outcome, !.result = result]

TimeoutMessage == "Analysis timeout - please check status manually"

(* Mutant: the loop runs one more time than maxAttempts. *)
LoopTest_OneMore(p, attempt) == attempt <= p.maxAttempts

(* attempt < maxAttempts, line 127. *)
LoopTest(p, attempt) == attempt < p.maxAttempts

(* The for statement with the counter at attempt: the next check, or the   *)
(* throw of line 143.                                                      *)
Loop(p, attempt, waits) ==
    IF LoopTest(p, attempt)
    THEN Polling("check", p, attempt, p.checks, waits)
    ELSE [Polling("done", p, attempt, p.checks, waits)
            EXCEPT !.outcome = "timeout", !.result = TimeoutMessage]

(* handleSubmit calls pollAnalysisResult(task.task_id, ..., maxAttempts).  *)
pollAnalysisResult(user, taskID, maxAttempts) ==
    /\ Observed
    /\ poller.pc = "idle"
    /\ poller' = Loop([user |-> user, taskID |-> taskID,
                       maxAttempts |-> maxAttempts, checks |-> 0], 0, 0)
    /\ UNCHANGED <<tasks, decisions, requests, resp, providerIO, wasCompleted>>
    /\ UNCHANGED <<articles, cache, handlers, feeds>>

(* getAnalysisResult, lines 70-73: the fetch reaches the gateway, whose    *)
(* handler starts.                                                         *)
getAnalysisResult_Fetch ==
    /\ poller.pc = "check"
    /\ GetAnalysisResult_Load(1, poller.user, poller.taskID)
    /\ poller' = Polling("await", poller, poller.attempt, poller.checks + 1,
                         poller.waits)
    /\ UNCHANGED <<articles, cache, handlers, feeds>>

(* The fetch rejects (the gateway cannot be reached): the rejection leaves *)
(* the loop.                                                               *)
getAnalysisResult_Rejected ==
    /\ Observed
    /\ poller.pc = "check"
    /\ poller' = Ended(poller, poller.checks + 1, "error", "Failed to fetch")
    /\ UNCHANGED <<tasks, decisions, requests, resp, providerIO, wasCompleted>>
    /\ UNCHANGED <<articles, cache, handlers, feeds>>

(* response.ok *)
ResponseOK(code) == code \in 200..299

(* Lines 75-78: the message thrown for an answer that is not ok. *)
FetchErrorMessage(body) ==
    IF "error" \in DOMAIN body /\ body.error # "" THEN body.error
    ELSE "Failed to fetch result"

(* Line 134. *)
EndsLoop(status) == status = "completed" \/ status = "failed"

(* Lines 75-140: the gateway's answer arrives; the loop throws, returns    *)
(* the task or starts the timer.                                           *)
getAnalysisResult_Answered ==
    /\ poller.pc = "await"
    /\ resp.op = "GetAnalysisResult"
    /\ resp' = NoResponse
    /\ providerIO' = NoCall
    /\ poller' =
        IF ~ResponseOK(resp.code)
        THEN Ended(poller, poller.checks, "error", FetchErrorMessage(resp.body))
        ELSE IF EndsLoop(resp.body.Status)
        THEN Ended(poller, poller.checks, "task", resp.body)
        ELSE Polling("wait", poller, poller.attempt, poller.checks, poller.waits)
    /\ UNCHANGED <<tasks, decisions, requests, wasCompleted>>
    /\ UNCHANGED <<articles, cache, handlers, feeds>>

(* Lines 139-140 and the loop's increment: the timer fires. *)
TimerFired ==
    /\ Observed
    /\ poller.pc = "wait"
    /\ poller' = Loop(poller, poller.attempt + 1, poller.waits + 1)
    /\ UNCHANGED <<tasks, decisions, requests, resp, providerIO, wasCompleted>>
    /\ UNCHANGED <<articles, cache, handlers, feeds>>

(***************************************************************************)
(* PollSpec: one poll loop against the gateway, over a task table of one   *)
(* submitted task or none; the loop's checks are the only reconciles.      *)
(* LivePollSpec adds weak fairness of the steps: the browser runs a        *)
(* pending continuation or timer, a gateway handler runs to its end, and   *)
(* the provider call returns within the HTTP client's timeout.             *)
(***************************************************************************)
PollInit ==
    /\ tasks \in {Submitted(n, "one") : n \in 0..1}
    /\ decisions = <<>>
    /\ requests = [r \in 1..MaxRequests |-> Idle]
    /\ resp = NoResponse
    /\ providerIO = NoCall
    /\ wasCompleted = {}
    /\ ExtInit

StartPoll ==
    \E user \in Callers, taskID \in PolledTaskIDs, m \in 0..MaxPollAttempts :
        pollAnalysisResult(user, taskID, m)

(* A gateway step that answered nobody is over. *)
StepObserved == resp.op # "GetAnalysisResult" /\ ResponseSent

PollNext ==
    \/ StartPoll
    \/ getAnalysisResult_Fetch
    \/ getAnalysisResult_Rejected
    \/ Poll
    \/ Save
    \/ StepObserved
    \/ getAnalysisResult_Answered
    \/ TimerFired

PollSpec == PollInit /\ [][PollNext]_vars

LivePollSpec == PollSpec /\ WF_vars(PollNext)

(***************************************************************************)
(* SettledSpec: the owners keep reconciling their tasks serially against a *)
(* provider that has settled: it is unreachable, answers with a status     *)
(* other than 200, or reports completed or failed.  Weak fairness: an      *)
(* owner's next reconcile is eventually sent (the poll loop's timer), a    *)
(* handler that has started runs to its end, and the provider call returns *)
(* within the HTTP client's timeout.                                       *)
(***************************************************************************)
SettledResponses ==
    {presp \in StatusResponses :
        \/ presp.kind = "error"
        \/ presp.code # StatusOK
        \/ /\ presp.body.json.t = "object"
           /\ "status" \in DOMAIN presp.body.json.o
           /\ presp.body.json.o["status"] \in {JStr("completed"), JStr("failed")}}

SettledInit ==
    /\ tasks \in {Submitted(n, "alternate") : n \in 1..2}
    /\ decisions = <<>>
    /\ requests = [r \in 1..MaxRequests |-> Idle]
    /\ resp = NoResponse
    /\ providerIO = NoCall
    /\ wasCompleted = {}
    /\ ExtInit

(* The owner of a stored pending or processing task reconciles it. *)
OwnerLoad ==
    \E r \in 1..MaxRequests, i \in 1..Len(tasks) :
        /\ IsInFlight(tasks[i].Status)
        /\ ~InFlight(tasks[i].TaskID)
        /\ GetAnalysisResult_Load(r, tasks[i].UserID, tasks[i].TaskID)
        /\ UNCHANGED ext

SettledPoll ==
    \E r \in 1..MaxRequests, presp \in SettledResponses :
        GetAnalysisResult_Poll(r, presp) /\ UNCHANGED ext

SettledNext == OwnerLoad \/ SettledPoll \/ Save \/ ResponseSent

SettledSpec ==
    /\ SettledInit
    /\ [][SettledNext]_vars
    /\ WF_vars(OwnerLoad)
    /\ WF_vars(SettledPoll)
    /\ WF_vars(Save)
    /\ WF_vars(ResponseSent)

(***************************************************************************)
(* The article handlers (src/backend/main.go, lines 135-529).              *)
(*   articles: the table articles, rows in primary-key order (no handler   *)
(*     deletes a row).                                                     *)
(*   cache: the Redis entry of key "articles": NoEntry, or the list a      *)
(*     GetArticles stored.                                                 *)
(*   feeds: the table rss_feeds, each row with what its URL serves now.    *)
(*   handlers: the handlers and goroutines of the article routes, one slot *)
(*     per request, each with its position and local variables.            *)
(* Times are ticks; NoTime is a nil *time.Time.                            *)
(***************************************************************************)
MaxArticleRequests == 3

StatusCreated == 201
ArticleLimit == 50
PreviewLength == 280
NoTime == 0

(* created_at of the next row: rows are created after every publication    *)
(* time a feed carries.                                                    *)
CreatedNow(as) == 100 + Len(as)

(* An rssItem as parseRSS and parseAtom read it off the feed document,     *)
(* before the items without link or title are dropped.                     *)
Item(title, link, guid, publishedAt, description) ==
    [Title |-> title, Link |-> link, GUID |-> guid, PublishedAt |-> publishedAt,
     Description |-> description]

FedItem == Item("Fed holds rates", "https://a.example/1", "a-1", 10,
                "<p>Fed holds rates again.</p>")
ChipItem == Item("Chip rally", "https://a.example/2", "", 20, "")
SyndicatedItem == Item("Fed holds rates (wire)", "https://b.example/1", "a-1",
                       NoTime, "Fed holds rates again.")
UntitledItem == Item("", "https://b.example/9", "b-9", 30, "no title")

(* What a feed URL serves: no answer, or a document with these items.      *)
Down == [kind |-> "error", err |-> "context deadline exceeded"]
Serves(items) == [kind |-> "items", items |-> items]

(* regexp <[^>]*> removed, line breaks replaced, strings.TrimSpace. *)
sanitize(text) ==
    IF text = "<p>Fed holds rates again.</p>" THEN "Fed holds rates again."
    ELSE IF text \in {"", " ", "<br/>"} THEN ""
    ELSE text

truncate(text, maxLen) ==
    IF Len(text) <= maxLen THEN text
    ELSE IF maxLen <= 3 THEN SubSeq(text, 1, maxLen)
    ELSE SubSeq(text, 1, maxLen - 3) \o "..."

(* parseRSS, lines 270-275: items without link or title are skipped. *)
parseRSS(items) ==
    LET Usable(it) == it.Link # "" /\ it.Title # ""
    IN  SelectSeq(items, Usable)

(* sort.SliceStable newest first, undated items last: the position of the  *)
(* item that comes first.                                                  *)
Newest(items) ==
    LET dated == {i \in DOMAIN items : items[i].PublishedAt # NoTime}
    IN  IF dated = {} THEN 1
        ELSE CHOOSE i \in dated :
                \A j \in dated :
                    \/ items[i].PublishedAt > items[j].PublishedAt
                    \/ items[i].PublishedAt = items[j].PublishedAt /\ i <= j

(* fetchLatestFeedItem: [err], [nil] or the newest item. *)
fetchLatestFeedItem(feed) ==
    IF feed.remote.kind = "error" THEN [kind |-> "error", err |-> feed.remote.err]
    ELSE LET items == parseRSS(feed.remote.items) IN
         IF Len(items) = 0 THEN [kind |-> "nil"]
         ELSE [kind |-> "item", item |-> items[Newest(items)]]

(* Mutant: only the link is compared. *)
Existing_LinkOnly(as, item) ==
    {i \in 1..Len(as) : as[i].Link = item.Link}

(* Lines 464-466: link = ? OR (guid <> '' AND guid = ?). *)
Existing(as, item) ==
    {i \in 1..Len(as) :
        \/ as[i].Link = item.Link
        \/ as[i].GUID # "" /\ as[i].GUID = item.GUID}

(* Lines 474-490. *)
NewArticle(feed, item) ==
    LET cleanContent == IF sanitize(item.Description) = "" THEN item.Title
                        ELSE sanitize(item.Description)
    IN  [Title |-> item.Title, Content |-> cleanContent,
         Preview |-> truncate(cleanContent, PreviewLength),
         Source |-> feed.Name, SourceURL |-> feed.URL, Link |-> item.Link,
         GUID |-> item.GUID, PublishedAt |-> item.PublishedAt]

(* DB.Create(&article): refused when the link is stored already (unique    *)
(* index of Article.Link).                                                 *)
LinkTaken(as, link) == \E i \in 1..Len(as) : as[i].Link = link

Inserted(as, article) ==
    Append(as, [ID |-> Len(as) + 1, CreatedAt |-> CreatedNow(as),
                Title |-> article.Title, Content |-> article.Content,
                Preview |-> article.Preview, Source |-> article.Source,
                SourceURL |-> article.SourceURL, Link |-> article.Link,
                GUID |-> article.GUID, PublishedAt |-> article.PublishedAt])

(* COALESCE(published_at, created_at) *)
SortKey(row) == IF row.PublishedAt # NoTime THEN row.PublishedAt ELSE row.CreatedAt

(* Order("COALESCE(published_at, created_at) DESC"), rows of equal key in  *)
(* primary-key order.                                                      *)
RECURSIVE OrderByPublishedDesc(_, _)
OrderByPublishedDesc(as, S) ==
    IF S = {} THEN <<>>
    ELSE LET i == CHOOSE i \in S :
                    \A j \in S : \/ SortKey(as[i]) > SortKey(as[j])
                                 \/ SortKey(as[i]) = SortKey(as[j]) /\ i <= j
         IN  <<as[i]>> \o OrderByPublishedDesc(as, S \ {i})

(* The query of line 414. *)
FindArticles(as) == Limit(OrderByPublishedDesc(as, 1..Len(as)), ArticleLimit)

(* json.Marshal of the list, as stored under the key. *)
Entry(list) == [present |-> TRUE, json |-> list]

(* A slot: a handler that has not been called, one that is over, and one   *)
(* at position pc with the local variables v.                              *)
Unused == [pc |-> "idle"]
Over(op, v) == [pc |-> "done", op |-> op, v |-> v]
At(pc, op, v) == [pc |-> pc, op |-> op, v |-> v]

(* Requests take the slots in order. *)
Free(h) ==
    /\ handlers[h].pc = "idle"
    /\ \A q \in 1..(h - 1) : handlers[q].pc # "idle"

(* A request without a body. *)
NoInput == [body |-> ""]

Reply(op, input, code, body) ==
    /\ resp' = Response(op, NoUser, input, code, body)
    /\ providerIO' = NoCall

(* The variables of the trading routes and of the client. *)
others == <<tasks, decisions, requests, wasCompleted, poller>>

(* ShouldBindJSON with binding:"required" on Title, Content and Preview. *)
Binds(input) == input.Title # "" /\ input.Content # "" /\ input.Preview # ""

(* CreateArticle, lines 380-401.  The goroutine of lines 396-398 is left   *)
(* running with the request's context.                                     *)
CreateArticle(h, input) ==
    /\ Observed
    /\ Free(h)
    /\ UNCHANGED others
    /\ UNCHANGED <<cache, feeds>>
    /\ IF ~Binds(input) THEN
           /\ Reply("CreateArticle", input, StatusBadRequest,
                    ErrorBody("Key: 'Article.Title' Error:Field validation"))
           /\ handlers' = [handlers EXCEPT ![h] =
                  Over("CreateArticle", [wrote |-> FALSE, deleted |-> FALSE])]
           /\ UNCHANGED articles
       ELSE IF LinkTaken(articles, input.Link) THEN
           /\ Reply("CreateArticle", input, StatusInternalServerError,
                    ErrorBody("duplicate key value violates unique constraint"))
           /\ handlers' = [handlers EXCEPT ![h] =
                  Over("CreateArticle", [wrote |-> FALSE, deleted |-> FALSE])]
           /\ UNCHANGED articles
       ELSE
           /\ articles' = Inserted(articles, input)
           /\ Reply("CreateArticle", input, StatusCreated,
                    articles'[Len(articles')])
           /\ handlers' = [handlers EXCEPT ![h] =
                  At("invalidate", "CreateArticle",
                     [ctx |-> "request", wrote |-> TRUE])]

(* RedisDB.Del(ctx, cacheKey) in the goroutine: whether the key is         *)
(* deleted.  With context.Background() it is.  c.Request.Context() is read *)
(* when the goroutine runs: when the handler has returned by then the      *)
(* context is cancelled (or belongs to the request gin has reused the      *)
(* Context for) and Del gives up with the context's error, which is        *)
(* dropped.                                                                *)
DelOutcomes(ctx) == IF ctx = "background" THEN {TRUE} ELSE {TRUE, FALSE}

Invalidate(h) ==
    /\ Observed
    /\ handlers[h].pc = "invalidate"
    /\ \E deleted \in DelOutcomes(handlers[h].v.ctx) :
        /\ cache' = IF deleted THEN NoEntry ELSE cache
        /\ handlers' = [handlers EXCEPT ![h] =
               Over(handlers[h].op, [wrote |-> handlers[h].v.wrote,
                                     deleted |-> deleted] @@ handlers[h].v)]
    /\ UNCHANGED <<resp, providerIO, articles, feeds>>
    /\ UNCHANGED others

(* GetArticles, lines 403-412: RedisDB.Get; a hit is answered. *)
GetArticles_Get(h) ==
    /\ Observed
    /\ Free(h)
    /\ UNCHANGED others
    /\ UNCHANGED <<articles, cache, feeds>>
    /\ IF cache.present THEN
           /\ Reply("GetArticles", NoInput, StatusOK, JArr(cache.json))
           /\ handlers' = [handlers EXCEPT ![h] =
                  Over("GetArticles", [hit |-> TRUE, list |-> cache.json])]
       ELSE
           /\ UNCHANGED <<resp, providerIO>>
           /\ handlers' = [handlers EXCEPT ![h] = At("find", "GetArticles", [hit |-> FALSE])]

(* Line 414: the miss reads the table. *)
GetArticles_Find(h) ==
    /\ Observed
    /\ handlers[h].pc = "find"
    /\ handlers' = [handlers EXCEPT ![h] =
           At("set", "GetArticles", [list |-> FindArticles(articles)])]
    /\ UNCHANGED <<resp, providerIO, articles, cache, feeds>>
    /\ UNCHANGED others

(* Lines 418-431: RedisDB.Set of the list read, and the answer. *)
GetArticles_Set(h) ==
    /\ Observed
    /\ handlers[h].pc = "set"
    /\ cache' = Entry(handlers[h].v.list)
    /\ Reply("GetArticles", NoInput, StatusOK, JArr(handlers[h].v.list))
    /\ handlers' = [handlers EXCEPT ![h] =
           Over("GetArticles", [hit |-> FALSE, list |-> handlers[h].v.list])]
    /\ UNCHANGED <<articles, feeds>>
    /\ UNCHANGED others

(* The entry's TTL of ten minutes runs out. *)
CacheExpires ==
    /\ Observed
    /\ cache.present
    /\ cache' = NoEntry
    /\ UNCHANGED <<resp, providerIO, articles, handlers, feeds>>
    /\ UNCHANGED others

(* The default feed the model keeps of defaultRSSFeeds, and a feed row     *)
(* added by hand.                                                          *)
defaultRSSFeeds ==
    << [Name |-> "arXiv (cs.AI)", URL |-> "https://export.arxiv.org/rss/cs.AI"] >>

CustomFeed == [Name |-> "Wire", URL |-> "https://wire.example/feed"]

Feed(def, stored, active, remote) ==
    [Name |-> def.Name, URL |-> def.URL, stored |-> stored, Active |-> active,
     LastFetched |-> NoTime, remote |-> remote]

(* ensureDefaultFeeds: FirstOrCreate with Assign(Name, Active: true) on    *)
(* every default URL.                                                      *)
ensureDefaultFeeds(fs) ==
    [f \in DOMAIN fs |->
        IF \E d \in DOMAIN defaultRSSFeeds : defaultRSSFeeds[d].URL = fs[f].URL
        THEN [fs[f] EXCEPT !.stored = TRUE, !.Active = TRUE]
        ELSE fs[f]]

(* Where("active = ?", true).Find(&feeds): the rows, in primary-key order. *)
ActiveFeeds(fs) ==
    LET IsActive(f) == fs[f].stored /\ fs[f].Active
    IN  SelectSeq([f \in DOMAIN fs |-> f], IsActive)

(* The loop of line 451 moves to the next feed, or leaves for line 504. *)
NextFeed(h, v) ==
    IF v.i < Len(v.feeds)
    THEN At("fetch", "RefreshRSSArticles", [v EXCEPT !.i = v.i + 1])
    ELSE At("respond", "RefreshRSSArticles", v)

(* RefreshRSSArticles, lines 435-450. *)
RefreshRSSArticles_Start(h) ==
    /\ Observed
    /\ Free(h)
    /\ feeds' = ensureDefaultFeeds(feeds)
    /\ LET v == [feeds |-> ActiveFeeds(feeds'), i |-> 0, inserted |-> <<>>,
                 warnings |-> <<>>, fetched |-> <<>>, ctx |-> "background",
                 wrote |-> TRUE]
       IN  handlers' = [handlers EXCEPT ![h] = NextFeed(h, v)]
    /\ UNCHANGED <<resp, providerIO, articles, cache>>
    /\ UNCHANGED others

(* Lines 452-472: the feed's newest item and the query for a stored        *)
(* article with its link or GUID.                                          *)
RefreshRSSArticles_Fetch(h) ==
    /\ Observed
    /\ handlers[h].pc = "fetch"
    /\ LET v == handlers[h].v
           feed == feeds[v.feeds[v.i]]
           latest == fetchLatestFeedItem(feed)
           w == [v EXCEPT !.fetched = Append(@, [URL |-> feed.URL,
                                                 remote |-> feed.remote])]
       IN  handlers' = [handlers EXCEPT ![h] =
               IF latest.kind = "error"
               THEN NextFeed(h, [w EXCEPT !.warnings =
                                    Append(@, feed.Name \o ": " \o latest.err)])
               ELSE IF latest.kind = "nil" THEN NextFeed(h, w)
               ELSE IF Existing(articles, latest.item) # {} THEN NextFeed(h, w)
               ELSE At("create", "RefreshRSSArticles",
                       [new |-> NewArticle(feed, latest.item)] @@ w)]
    /\ UNCHANGED <<resp, providerIO, articles, cache, feeds>>
    /\ UNCHANGED others

(* Lines 492-502: DB.Create(&newArticle) and the feed's last_fetched. *)
RefreshRSSArticles_Create(h) ==
    /\ Observed
    /\ handlers[h].pc = "create"
    /\ LET v == handlers[h].v
           w == [k \in DOMAIN v \ {"new"} |-> v[k]]
           f == v.feeds[v.i]
       IN  IF LinkTaken(articles, v.new.Link) THEN
               /\ handlers' = [handlers EXCEPT ![h] =
                      NextFeed(h, [w EXCEPT !.warnings =
                          Append(@, feeds[f].Name \o ": duplicate key value")])]
               /\ UNCHANGED <<articles, feeds>>
           ELSE
               /\ articles' = Inserted(articles, v.new)
               /\ feeds' = [feeds EXCEPT ![f].LastFetched = CreatedNow(articles)]
               /\ handlers' = [handlers EXCEPT ![h] =
                      NextFeed(h, [w EXCEPT !.inserted =
                          Append(@, articles'[Len(articles')])])]
    /\ UNCHANGED <<resp, providerIO, cache>>
    /\ UNCHANGED others

(* Lines 504-514: the goroutine is started and the run is answered. *)
RefreshRSSArticles_Respond(h) ==
    /\ Observed
    /\ handlers[h].pc = "respond"
    /\ LET v == handlers[h].v IN
        /\ Reply("RefreshRSSArticles", NoInput, StatusOK,
                 [inserted |-> Len(v.inserted), articles |-> v.inserted,
                  warnings |-> v.warnings])
        /\ handlers' = [handlers EXCEPT ![h] = At("invalidate", "RefreshRSSArticles", v)]
    /\ UNCHANGED <<articles, cache, feeds>>
    /\ UNCHANGED others

(* A feed's publisher changes what the URL serves. *)
FeedChanges(f, remote) ==
    /\ Observed
    /\ feeds[f].remote # remote
    /\ feeds' = [feeds EXCEPT ![f].remote = remote]
    /\ UNCHANGED <<resp, providerIO, articles, cache, handlers>>
    /\ UNCHANGED others

(***************************************************************************)
(* ArticleSpec: CreateArticle, GetArticles and RefreshRSSArticles arrive   *)
(* at any time, MaxArticleRequests requests in all, against feeds that     *)
(* keep serving what they serve; LiveArticleSpec adds weak fairness of the *)
(* steps of a handler or goroutine that has started (the Go scheduler runs *)
(* every goroutine; Redis and the database answer).                        *)
(* RefreshSpec: CreateArticle and RefreshRSSArticles run one after the     *)
(* other, and the feeds change between their steps.                        *)
(***************************************************************************)
ArticleInputs ==
    { [Title |-> "Rates outlook", Content |-> "Notes.", Preview |-> "Notes.",
       Source |-> "", SourceURL |-> "", Link |-> "https://m.example/1",
       GUID |-> "", PublishedAt |-> NoTime],
      [Title |-> "Fed holds rates", Content |-> "Copy.", Preview |-> "Copy.",
       Source |-> "", SourceURL |-> "", Link |-> "https://a.example/1",
       GUID |-> "", PublishedAt |-> 10],
      [Title |-> "", Content |-> "No title.", Preview |-> "No title.",
       Source |-> "", SourceURL |-> "", Link |-> "https://m.example/2",
       GUID |-> "", PublishedAt |-> NoTime] }

DefaultRemotes == {Down, Serves(<<FedItem>>), Serves(<<FedItem, ChipItem>>)}

CustomRemotes == {Serves(<<>>), Serves(<<UntitledItem, SyndicatedItem>>)}

Slots == 1..MaxArticleRequests

ArticleInit ==
    /\ tasks = <<>>
    /\ decisions = <<>>
    /\ requests = [r \in 1..MaxRequests |-> Idle]
    /\ resp = NoResponse
    /\ providerIO = NoCall
    /\ wasCompleted = {}
    /\ poller = NoPoll
    /\ articles = <<>>
    /\ cache = NoEntry
    /\ handlers = [h \in Slots |-> Unused]
    /\ \E r1 \in DefaultRemotes, r2 \in CustomRemotes, active \in BOOLEAN :
          feeds = << Feed(defaultRSSFeeds[1], FALSE, TRUE, r1),
                     Feed(CustomFeed, TRUE, active, r2) >>

Create == \E h \in Slots, input \in ArticleInputs : CreateArticle(h, input)

Get == \E h \in Slots : GetArticles_Get(h)

Find == \E h \in Slots : GetArticles_Find(h)

Set == \E h \in Slots : GetArticles_Set(h)

Refresh == \E h \in Slots : RefreshRSSArticles_Start(h)

Fetch == \E h \in Slots : RefreshRSSArticles_Fetch(h)

CreateRow == \E h \in Slots : RefreshRSSArticles_Create(h)

Respond == \E h \in Slots : RefreshRSSArticles_Respond(h)

Del == \E h \in Slots : Invalidate(h)

ArticleNext ==
    \/ Create \/ Get \/ Find \/ Set \/ Refresh \/ Fetch \/ CreateRow \/ Respond
    \/ Del \/ CacheExpires \/ ResponseSent

ArticleSpec == ArticleInit /\ [][ArticleNext]_vars

LiveArticleSpec ==
    /\ ArticleSpec
    /\ WF_vars(Find) /\ WF_vars(Set) /\ WF_vars(Fetch) /\ WF_vars(CreateRow)
    /\ WF_vars(Respond) /\ WF_vars(Del) /\ WF_vars(ResponseSent)

(* No handler is between its first and its last statement. *)
NoHandlerRunning ==
    \A h \in Slots : handlers[h].pc \in {"idle", "invalidate", "done"}

SerialCreate == NoHandlerRunning /\ Create

SerialRefresh == NoHandlerRunning /\ Refresh

Publish ==
    \/ \E remote \in DefaultRemotes : FeedChanges(1, remote)
    \/ \E remote \in CustomRemotes : FeedChanges(2, remote)

RefreshNext ==
    \/ SerialCreate \/ SerialRefresh \/ Fetch \/ CreateRow \/ Respond \/ Del
    \/ Publish \/ ResponseSent

RefreshSpec == ArticleInit /\ [][RefreshNext]_vars

(***************************************************************************)
(* Properties.                                                             *)
(***************************************************************************)
Terminal(status) == status \in {"completed", "failed"}

Rows == 1..Len(tasks)

(* The step just taken answered a reconcile of row i's task_id by caller u. *)
AnsweredReconcile(r, u, taskID) ==
    r.op = "GetAnalysisResult" /\ r.user = u /\ r.input = taskID

(* C1: a reconcile by the owner of a task whose stored status is completed  *)
(* or failed calls no provider, writes neither table and answers 200 with   *)
(* the stored row and its decision; and as no step changes such a row or    *)
(* its decision, every such call answers the same task state.               *)
C1_TerminalReconcileIsPureRead ==
    [][\A i \in Rows :
          Terminal(tasks[i].Status) =>
            /\ tasks'[i] = tasks[i]
            /\ PreloadDecision(tasks[i], decisions')
                   = PreloadDecision(tasks[i], decisions)
            /\ AnsweredReconcile(resp', tasks[i].UserID, tasks[i].TaskID) =>
                 /\ providerIO' = NoCall
                 /\ tasks' = tasks
                 /\ decisions' = decisions
                 /\ resp'.code = StatusOK
                 /\ resp'.body =
                        WithDecision(tasks[i], PreloadDecision(tasks[i], decisions))
      ]_vars

(* A reconcile of a failed task has been answered without a provider call. *)
C1_Witness ==
    /\ resp.op = "GetAnalysisResult"
    /\ resp.code = StatusOK
    /\ providerIO = NoCall
    /\ resp.body.Status = "failed"
    /\ \E i \in Rows : Row(resp.body) = tasks[i] /\ resp.user = tasks[i].UserID

(* The rows of trading_decisions with a task_id. *)
DecisionsOf(taskID) == {j \in 1..Len(decisions) : decisions[j].TaskID = taskID}

(* C2: under any interleaving of reconciles, a completed task never has    *)
(* more than one Decision row with its task_id (the "no duplicates" of the *)
(* claim; that it has at least one is C6's subject).                       *)
C2_NoDuplicateDecision ==
    \A i \in Rows :
        tasks[i].Status = "completed" =>
            Cardinality(DecisionsOf(tasks[i].TaskID)) <= 1

(* C3: with reconciles of a task_id issued serially, no task_id ever has   *)
(* more than one Decision row, and no step changes or removes a Decision   *)
(* row once it is inserted.                                                *)
C3_SerialAtMostOneDecision ==
    /\ [](\A t \in TaskIDs : Cardinality(DecisionsOf(t)) <= 1)
    /\ [][\A j \in 1..Len(decisions) :
             j <= Len(decisions') /\ decisions'[j] = decisions[j]]_vars

(* Both tasks were completed by serial reconciles, each with its decision. *)
C3_Witness ==
    /\ Len(tasks) = 2
    /\ \A i \in Rows :
          /\ tasks[i].Status = "completed"
          /\ Cardinality(DecisionsOf(tasks[i].TaskID)) = 1
    /\ \A r \in 1..MaxRequests : requests[r].pc = "idle"

(* C4: once a task's stored status is completed or failed, no step changes *)
(* it, whatever the interleaving of reconciles.                            *)
C4_TerminalStatusIsFinal ==
    [][\A i \in Rows :
          Terminal(tasks[i].Status) => tasks'[i].Status = tasks[i].Status]_vars

(* C5: every step leaves each task's stored status within pending,        *)
(* processing, completed, failed and never earlier in the order            *)
(* pending -> processing -> (completed | failed) than it was.              *)
StatusRank(status) ==
    CASE status = "pending" -> 1
      [] status = "processing" -> 2
      [] Terminal(status) -> 3
      [] OTHER -> 0

C5_StatusMovesForward ==
    [][\A i \in Rows :
          /\ tasks'[i].Status \in {"pending", "processing", "completed", "failed"}
          /\ StatusRank(tasks'[i].Status) >= StatusRank(tasks[i].Status)]_vars

(* C6: whenever no reconcile of a task is in flight, the task has a        *)
(* Decision row exactly if its stored status is or has been completed.     *)
C6_DecisionIffCompleted ==
    \A i \in Rows :
        ~InFlight(tasks[i].TaskID) =>
            (DecisionsOf(tasks[i].TaskID) # {} <=> i \in wasCompleted)

(* C7: a reconcile of a task_id owned by another user answers 404 with the *)
(* fixed not-found error and nothing of the task, calls no provider and    *)
(* leaves both tables as they were.                                        *)
C7_OwnershipIsolation ==
    [][\A i \in Rows : \A u \in Users \ {tasks[i].UserID} :
          AnsweredReconcile(resp', u, tasks[i].TaskID) =>
            /\ resp'.code = StatusNotFound
            /\ resp'.body = ErrorBody("task not found")
            /\ providerIO' = NoCall
            /\ tasks' = tasks
            /\ decisions' = decisions]_vars

(* User B asked for a task_id that exists and belongs to user A. *)
C7_Witness ==
    /\ resp.op = "GetAnalysisResult"
    /\ resp.code = StatusNotFound
    /\ resp.user \in Users
    /\ \E i \in Rows : tasks[i].TaskID = resp.input /\ tasks[i].UserID # resp.user

(* The step just taken was a submit that reached the provider. *)
SubmitCalled(r, io) == r.op = "RequestAnalysis" /\ io.call = "analyze"

(* The provider call timed out or failed to connect, or was answered with  *)
(* a status code other than 202.                                           *)
ProviderRefused(presp) ==
    presp.kind = "error" \/ (presp.kind = "http" /\ presp.code # 202)

(* C8: a submit whose provider call fails or is answered with a code other *)
(* than 202 answers its caller with an error and leaves the task table     *)
(* unchanged.                                                              *)
C8_FailedSubmitCreatesNothing ==
    [][(SubmitCalled(resp', providerIO') /\ ProviderRefused(providerIO'.presp)) =>
          /\ resp'.code >= 400
          /\ DOMAIN resp'.body = {"error"}
          /\ tasks' = tasks]_vars

(* With a task stored, the provider answered a submit 200 instead of 202. *)
C8_Witness ==
    /\ SubmitCalled(resp, providerIO)
    /\ providerIO.presp.kind = "http"
    /\ providerIO.presp.code = 200
    /\ resp.code = StatusBadGateway
    /\ Len(tasks) >= 1

(* What the provider's 202 body reports, read off the JSON itself. *)
Reported(presp, key) ==
    LET j == presp.body.json IN
    IF j.t = "object" /\ key \in DOMAIN j.o /\ j.o[key].t = "string"
    THEN j.o[key].s ELSE ""

(* The step appended exactly one row, for the caller and the request of    *)
(* resp', with the provider's task_id and status ("pending" if omitted).   *)
CreatedOneTask ==
    /\ Len(tasks') = Len(tasks) + 1
    /\ \A i \in Rows : tasks'[i] = tasks[i]
    /\ LET row == tasks'[Len(tasks')]
           presp == providerIO'.presp
       IN  /\ resp'.code = StatusAccepted
           /\ resp'.body = row
           /\ row.UserID = resp'.user
           /\ row.Ticker = resp'.input.Ticker
           /\ row.AnalysisDate = resp'.input.Date
           /\ row.Status = IF Reported(presp, "status") = "" THEN "pending"
                           ELSE Reported(presp, "status")
           /\ row.TaskID = Reported(presp, "task_id")
           /\ row.TaskID # ""
           /\ \A i \in Rows : tasks[i].TaskID # row.TaskID

Insertable(req, presp) ==
    /\ presp.body.json.t = "object"
    /\ Reported(presp, "task_id") # ""
    /\ \A i \in Rows : tasks[i].TaskID # Reported(presp, "task_id")
    /\ Len(req.Ticker) <= TickerWidth
    /\ Len(req.Date) <= DateWidth

C10_UnreachableProviderFailsTask ==
    [][(providerIO'.call = "status" /\ providerIO'.presp.kind = "error") =>
          LET i == FirstTask(tasks, providerIO'.task_id, resp'.user)
              msg == "failed to reach trading service: " \o providerIO'.presp.err
          IN  /\ i \in Rows
              /\ IsInFlight(tasks[i].Status)
              /\ tasks' = [tasks EXCEPT ![i].Status = "failed", ![i].Error = msg]
              /\ decisions' = decisions
              /\ resp'.code = StatusBadGateway
              /\ resp'.body = ErrorBody(msg)]_vars

(* A reconcile was answered 502 and its task is stored failed. *)
C10_Witness ==
    /\ resp.op = "GetAnalysisResult"
    /\ resp.code = StatusBadGateway
    /\ providerIO.call = "status"
    /\ providerIO.presp = Refused
    /\ \E i \in Rows :
          /\ tasks[i].TaskID = resp.input
          /\ tasks[i].Status = "failed"
          /\ tasks[i].Error = resp.body.error
          /\ DecisionsOf(resp.input) = {}

(* The step just taken was the provider call of a reconcile. *)
StatusCalled(io) == io.call = "status"

(* The message a submit reports to its caller for the same provider answer. *)
SubmitErrorFor(presp) ==
    RequestAnalysisOutcome(<<>>, 1, [Ticker |-> "NVDA", Date |-> "2024-05-10"],
                           presp).body.error

(* C11: when the provider answers the status call of a reconcile with a    *)
(* code other than 200, the task is stored failed with the message a       *)
(* submit would extract from the same answer ("model timeout" for the body *)
(* {"detail":"model timeout"}), no Decision row is inserted, and the       *)
(* caller is answered 200 with the failed task.                            *)
C11_NonOKStatusFailsTask ==
    [][(/\ StatusCalled(providerIO')
        /\ providerIO'.presp.kind = "http"
        /\ providerIO'.presp.code # 200) =>
          LET presp == providerIO'.presp
              i == FirstTask(tasks, providerIO'.task_id, resp'.user)
              msg == SubmitErrorFor(presp)
          IN  /\ i \in Rows
              /\ IsInFlight(tasks[i].Status)
              /\ presp.body = DetailBody => msg = "model timeout"
              /\ tasks' = [tasks EXCEPT ![i].Status = "failed", ![i].Error = msg]
              /\ decisions' = decisions
              /\ resp'.code = StatusOK
              /\ Row(resp'.body) = tasks'[i]]_vars

(* A reconcile was answered 200 with the task failed by the provider's     *)
(* 500 {"detail":"model timeout"}.                                         *)
C11_Witness ==
    /\ resp.op = "GetAnalysisResult"
    /\ resp.code = StatusOK
    /\ providerIO.call = "status"
    /\ providerIO.presp = HTTP(StatusInternalServerError, DetailBody)
    /\ resp.body.Status = "failed"
    /\ resp.body.Error = "model timeout"
    /\ \E i \in Rows : tasks[i] = Row(resp.body)

(* The provider answered the status call 200 with status completed and a   *)
(* decision object holding an action string and a confidence number.       *)
CompletedWithDecision(presp) ==
    /\ presp.kind = "http"
    /\ presp.code = StatusOK
    /\ presp.body.json.t = "object"
    /\ LET o == presp.body.json.o IN
          /\ "status" \in DOMAIN o /\ o["status"] = JStr("completed")
          /\ "decision" \in DOMAIN o /\ o["decision"].t = "object"
          /\ LET m == o["decision"].o IN
                /\ "action" \in DOMAIN m /\ m["action"].t = "string"
                /\ "confidence" \in DOMAIN m /\ m["confidence"].t = "number"

(* The request whose handler took the step. *)
Stepped(r) == requests'[r] # requests[r]

(* C12: when the provider answers the status call of a reconcile 200 with  *)
(* status completed and a decision holding action and confidence, one      *)
(* Decision row is inserted with the task_id, action and confidence of the *)
(* payload, and the handler then stores the task completed with the        *)
(* provider's processing duration and answers 200 with that task and the   *)
(* Decision row attached.                                                  *)
C12_CompletedStoresDecision ==
    /\ [][\A r \in 1..MaxRequests :
            (/\ StatusCalled(providerIO') /\ Stepped(r)
             /\ CompletedWithDecision(providerIO'.presp)) =>
               LET o == providerIO'.presp.body.json.o
                   m == o["decision"].o
                   d == decisions'[Len(decisions')]
               IN  /\ Len(decisions') = Len(decisions) + 1
                   /\ SubSeq(decisions', 1, Len(decisions)) = decisions
                   /\ d.TaskID = providerIO'.task_id
                   /\ d.Action = m["action"].s
                   /\ d.Confidence = m["confidence"].n
                   /\ requests'[r].pc = "save"
                   /\ requests'[r].task.Decision = d
                   /\ requests'[r].task.Status = "completed"
                   /\ requests'[r].task.ProcessingTimeSeconds =
                          IF "processing_time_seconds" \in DOMAIN o
                          THEN o["processing_time_seconds"].n ELSE 0]_vars
    /\ [][\A r \in 1..MaxRequests :
            (requests[r].pc = "save" /\ Stepped(r)) =>
               LET task == requests[r].task IN
               /\ tasks' = [tasks EXCEPT ![task.ID] = Row(task)]
               /\ decisions' = decisions
               /\ resp'.code = StatusOK
               /\ resp'.body = task
               /\ \E j \in 1..Len(decisions) : decisions[j] = task.Decision]_vars

(* The provider answered the status call 200 with a JSON object whose      *)
(* status is the string s.                                                 *)
ReportedStatus(presp, s) ==
    /\ presp.kind = "http"
    /\ presp.code = StatusOK
    /\ presp.body.json.t = "object"
    /\ "status" \in DOMAIN presp.body.json.o
    /\ presp.body.json.o["status"] = JStr(s)

(* C13: when the provider answers the status call of a reconcile 200 with  *)
(* status pending or processing, that status is stored on the task, whose  *)
(* other columns stay as they were, and the Decision table is unchanged.   *)
C13_InFlightStatusIsCopied ==
    [][\A s \in {"pending", "processing"} :
          (StatusCalled(providerIO') /\ ReportedStatus(providerIO'.presp, s)) =>
             LET i == FirstTask(tasks, providerIO'.task_id, resp'.user)
             IN  /\ i \in Rows
                 /\ IsInFlight(tasks[i].Status)
                 /\ tasks' = [tasks EXCEPT ![i].Status = s]
                 /\ decisions' = decisions
                 /\ resp'.code = StatusOK
                 /\ Row(resp'.body) = tasks'[i]]_vars

(* A task stored as pending was reconciled to processing. *)
C13_Witness ==
    /\ resp.op = "GetAnalysisResult"
    /\ resp.code = StatusOK
    /\ StatusCalled(providerIO)
    /\ ReportedStatus(providerIO.presp, "processing")
    /\ decisions = <<>>
    /\ \E i \in Rows :
          /\ tasks[i].TaskID = resp.input
          /\ tasks[i].Status = "processing"

(* C14: when the provider answers the status call of a reconcile 200 with  *)
(* status failed, the task is stored failed with the provider's error text *)
(* (empty when the provider sends none) and the Decision table is          *)
(* unchanged.                                                              *)
C14_ReportedFailureIsStored ==
    [][(StatusCalled(providerIO') /\ ReportedStatus(providerIO'.presp, "failed")) =>
          LET i == FirstTask(tasks, providerIO'.task_id, resp'.user)
              text == Reported(providerIO'.presp, "error")
          IN  /\ i \in Rows
              /\ IsInFlight(tasks[i].Status)
              /\ tasks' = [tasks EXCEPT ![i].Status = "failed", ![i].Error = text]
              /\ decisions' = decisions]_vars

(* A task is stored failed with the text the provider reported. *)
C14_Witness ==
    /\ StatusCalled(providerIO)
    /\ ReportedStatus(providerIO.presp, "failed")
    /\ \E i \in Rows :
          /\ tasks[i].TaskID = providerIO.task_id
          /\ tasks[i].Status = "failed"
          /\ tasks[i].Error = "agent crashed"
          /\ DecisionsOf(tasks[i].TaskID) = {}

(* The status call of a reconcile failed: the provider was unreachable,    *)
(* answered with a code other than 200, sent a body that does not decode,  *)
(* or reported status failed.                                              *)
Unreachable(presp) == presp.kind = "error"
NonSuccess(presp) == presp.kind = "http" /\ presp.code # StatusOK
Unparsable(presp) ==
    /\ presp.kind = "http"
    /\ presp.code = StatusOK
    /\ ~UnmarshalPythonServiceResponse(presp.body).ok
ReconcileFailure(presp) ==
    \/ Unreachable(presp)
    \/ NonSuccess(presp)
    \/ Unparsable(presp)
    \/ ReportedStatus(presp, "failed")

(* The text of the failure. *)
FailureText(presp) ==
    IF Unreachable(presp) THEN "failed to reach trading service: " \o presp.err
    ELSE IF NonSuccess(presp) THEN SubmitErrorFor(presp)
    ELSE IF Unparsable(presp)
    THEN "failed to parse trading service response: invalid character"
    ELSE Reported(presp, "error")

(* The task of the status call is stored failed with the failure's text. *)
FailureRecorded ==
    LET i == FirstTask(tasks, providerIO'.task_id, resp'.user)
    IN  /\ i \in Rows
        /\ tasks' = [tasks EXCEPT ![i].Status = "failed",
                                  ![i].Error = FailureText(providerIO'.presp)]

(* The caller is answered 200 with the stored task. *)
AnsweredWithTask ==
    /\ resp'.code = StatusOK
    /\ \E i \in Rows : tasks'[i].TaskID = providerIO'.task_id
                       /\ Row(resp'.body) = tasks'[i]

(* C15 as stated: every failure of the status call of a reconcile is       *)
(* recorded in the task's stored error and answered 200 with the task.     *)
C15_FailuresAnsweredWithTask ==
    [][(StatusCalled(providerIO') /\ ReconcileFailure(providerIO'.presp)) =>
          FailureRecorded /\ AnsweredWithTask]_vars

(* C15 amended: every such failure stores the task failed with the         *)
(* failure's text; an unreachable provider is answered 502 with that text, *)
(* the other failures 200 with the failed task.                            *)
C15_FailuresRecorded ==
    [][(StatusCalled(providerIO') /\ ReconcileFailure(providerIO'.presp)) =>
          /\ FailureRecorded
          /\ IF Unreachable(providerIO'.presp)
             THEN /\ resp'.code = StatusBadGateway
                  /\ resp'.body = ErrorBody(FailureText(providerIO'.presp))
             ELSE AnsweredWithTask]_vars

(* A reconcile whose provider answer did not decode was answered 200 with  *)
(* the task stored failed.                                                 *)
C15_Witness ==
    /\ resp.op = "GetAnalysisResult"
    /\ resp.code = StatusOK
    /\ StatusCalled(providerIO)
    /\ Unparsable(providerIO.presp)
    /\ resp.body.Status = "failed"
    /\ \E i \in Rows : tasks[i] = Row(resp.body)

(* The provider answered the status call 200 with status completed and a   *)
(* decision object that lacks an action string or a confidence number.     *)
MalformedDecision(presp) ==
    /\ ReportedStatus(presp, "completed")
    /\ "decision" \in DOMAIN presp.body.json.o
    /\ presp.body.json.o["decision"].t = "object"
    /\ LET m == presp.body.json.o["decision"].o IN
          \/ "action" \notin DOMAIN m
          \/ m["action"].t # "string"
          \/ "confidence" \notin DOMAIN m
          \/ m["confidence"].t # "number"

(* C16: when the provider reports completed with a decision that lacks an  *)
(* action string or a numeric confidence, the request does not crash: the  *)
(* task is stored failed with an error message, the caller gets no 500,    *)
(* and no Decision row is inserted.                                        *)
C16_MalformedDecisionFailsTask ==
    [][\A r \in 1..MaxRequests :
          (/\ StatusCalled(providerIO') /\ Stepped(r)
           /\ MalformedDecision(providerIO'.presp)) =>
             LET i == requests[r].task.ID IN
             /\ resp'.code # StatusInternalServerError
             /\ tasks'[i].Status = "failed"
             /\ tasks'[i].Error # ""
             /\ decisions' = decisions]_vars

(* The step just taken belongs to a reconcile of taskID that is or was in  *)
(* flight.                                                                 *)
ReconcileStepOf(taskID) ==
    \E r \in 1..MaxRequests :
        /\ Stepped(r)
        /\ \/ requests[r].pc # "idle" /\ requests[r].taskID = taskID
           \/ requests'[r].pc # "idle" /\ requests'[r].taskID = taskID

(* C17: a step that is not a reconcile of a task leaves that task's row    *)
(* (status, error and completion time included) and its Decision rows as   *)
(* they were; in particular a submit, ListUserAnalyses, GetAnalysisStats   *)
(* and CheckServiceHealth change no existing row of either table.          *)
C17_OnlyReconcileChangesTask ==
    /\ [][\A i \in Rows :
            ~ReconcileStepOf(tasks[i].TaskID) =>
               /\ tasks'[i] = tasks[i]
               /\ \A j \in 1..Len(decisions) :
                     decisions[j].TaskID = tasks[i].TaskID =>
                        decisions'[j] = decisions[j]
               /\ PreloadDecision(tasks[i], decisions')
                      = PreloadDecision(tasks[i], decisions)]_vars
    /\ [][resp'.op \in {"RequestAnalysis", "ListUserAnalyses",
                        "GetAnalysisStats", "CheckServiceHealth"} =>
               /\ \A i \in Rows : tasks'[i] = tasks[i]
               /\ decisions' = decisions]_vars

(* The owner listed a completed task with its decision next to a task that *)
(* is still pending.                                                       *)
C17_Witness ==
    /\ resp.op = "ListUserAnalyses"
    /\ resp.code = StatusOK
    /\ resp.body.total = 2
    /\ resp.body.tasks[1].Status = "pending"
    /\ resp.body.tasks[2].Status = "completed"
    /\ resp.body.tasks[2].Decision # NilDecision

(* Status calls the invocation of request r has made once the step is     *)
(* taken.                                                                  *)
CallsAfterStep(r) ==
    (IF requests[r].pc = "idle" THEN 0 ELSE requests[r].calls)
        + (IF StatusCalled(providerIO') THEN 1 ELSE 0)

(* C18: a reconcile of a task that its caller owns and whose status is     *)
(* neither completed nor failed makes exactly one status call by the time  *)
(* it answers; a reconcile of a completed, failed or not-owned task makes  *)
(* none.                                                                   *)
C18_OneStatusCallPerReconcile ==
    /\ [][\A r \in 1..MaxRequests :
            Stepped(r) =>
               /\ requests'[r].pc # "idle" => requests'[r].calls = CallsAfterStep(r)
               /\ requests'[r].pc = "idle" => CallsAfterStep(r) = 1]_vars
    /\ [][(resp'.op = "GetAnalysisResult" /\ resp = NoResponse
           /\ \A r \in 1..MaxRequests : ~Stepped(r)) =>
               LET i == FirstTask(tasks, resp'.input, resp'.user) IN
               /\ providerIO' = NoCall
               /\ i = 0 \/ Terminal(tasks[i].Status)]_vars

(* C19: no two task rows share a task_id and none has an empty one; and no *)
(* step, a reconcile step in particular, changes a row's task_id, owner,   *)
(* ticker or analysis date.                                                *)
C19_TaskIDUniqueAndImmutable ==
    /\ [](\A i \in Rows :
            /\ tasks[i].TaskID # ""
            /\ \A j \in Rows : tasks[j].TaskID = tasks[i].TaskID => j = i)
    /\ [][\A i \in Rows :
            /\ tasks'[i].TaskID = tasks[i].TaskID
            /\ tasks'[i].UserID = tasks[i].UserID
            /\ tasks'[i].Ticker = tasks[i].Ticker
            /\ tasks'[i].AnalysisDate = tasks[i].AnalysisDate]_vars

(* With a reconciled task stored, a submit for which the provider handed   *)
(* out a task_id already in the table was refused.                         *)
C19_Witness ==
    /\ resp.op = "RequestAnalysis"
    /\ resp.code = StatusInternalServerError
    /\ providerIO.presp.kind = "http"
    /\ providerIO.presp.code = StatusAccepted
    /\ Len(tasks) = 2
    /\ \E i \in Rows :
          /\ tasks[i].TaskID = Reported(providerIO.presp, "task_id")
          /\ tasks[i].Status = "completed"

(* The rows of user u. *)
OwnedBy(u) == {i \in Rows : tasks[i].UserID = u}

(* C20: the tasks ListUserAnalyses answers with are rows of the caller     *)
(* only, newest first by creation time, and are the min(20, n) most        *)
(* recently created of the caller's n rows.                                *)
C20_ListNewestTwentyOfCaller ==
    (resp.op = "ListUserAnalyses" /\ resp.code = StatusOK) =>
        LET L == resp.body.tasks
            mine == OwnedBy(resp.user)
            n == Cardinality(mine)
        IN  /\ \A k \in 1..Len(L) :
                  /\ L[k].UserID = resp.user
                  /\ L[k].ID \in mine
                  /\ Row(L[k]) = tasks[L[k].ID]
            /\ \A k, l \in 1..Len(L) : k < l => L[k].CreatedAt > L[l].CreatedAt
            /\ Len(L) = IF n < 20 THEN n ELSE 20
            /\ \A i \in mine :
                  (\A k \in 1..Len(L) : L[k].ID # i) =>
                      \A k \in 1..Len(L) : tasks[i].CreatedAt < L[k].CreatedAt

(* A user with 25 tasks listed them and got the 20 newest, newest first. *)
C20_Witness ==
    /\ resp.op = "ListUserAnalyses"
    /\ resp.code = StatusOK
    /\ Cardinality(OwnedBy(resp.user)) = 25
    /\ Len(resp.body.tasks) = 20
    /\ resp.body.tasks[1].TaskID = "task-25"
    /\ resp.body.tasks[20].TaskID = "task-6"

(* The Decision rows whose task_id is that of a task of user u. *)
DecisionsOfUser(u, action) ==
    {j \in 1..Len(decisions) :
        /\ decisions[j].Action = action
        /\ \E i \in OwnedBy(u) : tasks[i].TaskID = decisions[j].TaskID}

(* The user's tasks are 3 completed, 1 failed and 1 pending, with 2 BUY    *)
(* and 1 SELL decisions.                                                   *)
FiveTaskScenario(u) ==
    /\ Cardinality(OwnedBy(u)) = 5
    /\ Cardinality({i \in OwnedBy(u) : tasks[i].Status = "completed"}) = 3
    /\ Cardinality({i \in OwnedBy(u) : tasks[i].Status = "failed"}) = 1
    /\ Cardinality({i \in OwnedBy(u) : tasks[i].Status = "pending"}) = 1
    /\ Cardinality(DecisionsOfUser(u, "BUY")) = 2
    /\ Cardinality(DecisionsOfUser(u, "SELL")) = 1
    /\ Cardinality(DecisionsOfUser(u, "HOLD")) = 0

(* C21: GetAnalysisStats answers with the number of the caller's tasks,    *)
(* the numbers of them completed and failed, pending as the rest (so the   *)
(* three sum to the total), and the numbers of Decision rows of the        *)
(* caller's tasks with action BUY, SELL and HOLD; 5/3/1/1 and 2/1/0 in the *)
(* scenario of three completed (2 BUY, 1 SELL), one failed, one pending.   *)
C21_StatsCountCallersRows ==
    (resp.op = "GetAnalysisStats" /\ resp.code = StatusOK) =>
        LET b == resp.body
            u == resp.user
        IN  /\ b.total_analyses = Cardinality(OwnedBy(u))
            /\ b.completed =
                  Cardinality({i \in OwnedBy(u) : tasks[i].Status = "completed"})
            /\ b.failed =
                  Cardinality({i \in OwnedBy(u) : tasks[i].Status = "failed"})
            /\ b.pending = b.total_analyses - b.completed - b.failed
            /\ b.completed + b.failed + b.pending = b.total_analyses
            /\ b.decisions.buy = Cardinality(DecisionsOfUser(u, "BUY"))
            /\ b.decisions.sell = Cardinality(DecisionsOfUser(u, "SELL"))
            /\ b.decisions.hold = Cardinality(DecisionsOfUser(u, "HOLD"))
            /\ FiveTaskScenario(u) =>
                  b = [total_analyses |-> 5, completed |-> 3, failed |-> 1,
                       pending |-> 1,
                       decisions |-> [buy |-> 2, sell |-> 1, hold |-> 0]]

(* The stats of the scenario were answered. *)
C21_Witness ==
    /\ resp.op = "GetAnalysisStats"
    /\ resp.code = StatusOK
    /\ FiveTaskScenario(resp.user)
    /\ resp.body.total_analyses = 5

(* The string under key k of a JSON object, "" when the key is absent or   *)
(* holds something else.                                                   *)
Text(o, k) == IF k \in DOMAIN o /\ o[k].t = "string" THEN o[k].s ELSE ""

(* The reason the detail key gives: the string itself, or the msg of the   *)
(* first element of a list whose first element is an object.               *)
DetailText(o) ==
    IF "detail" \notin DOMAIN o THEN ""
    ELSE IF o["detail"].t = "string" THEN o["detail"].s
    ELSE IF o["detail"].t = "array" /\ Len(o["detail"].a) > 0
            /\ o["detail"].a[1].t = "object"
         THEN Text(o["detail"].a[1].o, "msg")
    ELSE ""

(* The candidates in the order of precedence, "" for one that is missing. *)
Candidates(body, statusCode) ==
    LET o == IF body.json.t = "object" THEN body.json.o ELSE <<>>
    IN  << Text(o, "error"), DetailText(o), Text(o, "message"), body.core,
           "trading service returned status " \o ToString(statusCode) >>

(* C22: the error a refused submit reports is the first non-empty one of:  *)
(* the string error field, the detail (a string, or the msg of the first   *)
(* element of a list of objects), the string message field, the trimmed    *)
(* body, the generic "trading service returned status N"; it is never      *)
(* empty.                                                                  *)
C22_ErrorByPrecedence ==
    (/\ SubmitCalled(resp, providerIO)
     /\ providerIO.presp.kind = "http"
     /\ providerIO.presp.code # StatusAccepted) =>
        LET c == Candidates(providerIO.presp.body, providerIO.presp.code)
            first == CHOOSE k \in 1..5 : c[k] # "" /\ \A l \in 1..(k - 1) : c[l] = ""
        IN  /\ resp.body.error = c[first]
            /\ resp.body.error # ""

(* An empty error string and an empty message next to a validation list:   *)
(* the msg of the list's first element was reported.                       *)
C22_Witness ==
    /\ SubmitCalled(resp, providerIO)
    /\ providerIO.presp.kind = "http"
    /\ providerIO.presp.body.json.t = "object"
    /\ DOMAIN providerIO.presp.body.json.o = {"error", "detail", "message"}
    /\ providerIO.presp.body.json.o["error"] = JStr("")
    /\ providerIO.presp.body.json.o["detail"].t = "array"
    /\ resp.body.error = "field required"

(***************************************************************************)
(* C27: Under serial reconciliation a stored task that has a completion    *)
(* time has status "completed": the completion time of a row changes only  *)
(* in a step that stores status "completed" on that row, and no pending,   *)
(* processing or failed row carries one.                                   *)
(***************************************************************************)
HasCompletionTime(row) == row.CompletedAt # NullTime

C27_CompletionTimeOnlyOnCompleted ==
    /\ [](\A i \in Rows : HasCompletionTime(tasks[i]) => tasks[i].Status = "completed")
    /\ [][\A i \in Rows :
            tasks'[i].CompletedAt # tasks[i].CompletedAt
                => /\ tasks'[i].Status = "completed"
                   /\ tasks[i].Status # "completed"]_vars

(* A reconcile has just stored status "completed" and the provider's      *)
(* completion time on a row.                                               *)
C27_Witness ==
    /\ resp.op = "GetAnalysisResult"
    /\ resp.code = StatusOK
    /\ \E i \in Rows :
        /\ tasks[i].Status = "completed"
        /\ tasks[i].CompletedAt = ParseRFC3339("2024-05-10T12:05:30Z")
        /\ tasks[i].TaskID = resp.input

(***************************************************************************)
(* C28: In every reachable state every stored task with status "failed"    *)
(* has a non-empty error text, whichever branch of the reconcile marked it *)
(* failed.                                                                 *)
(***************************************************************************)
C28_FailedHasErrorText ==
    \A i \in Rows : tasks[i].Status = "failed" => tasks[i].Error # ""

(***************************************************************************)
(* C30: buildStageProgress, for a task with status processing and no       *)
(* recorded stage times, never reports a sequential stage processing while *)
(* one of the five parallel analyst stages lacks content, reports at most  *)
(* one sequential stage processing, namely the first one lacking content,  *)
(* and reports every stage that has content completed; for a task with     *)
(* status failed it reports every stage failed.                            *)
(***************************************************************************)
Rendered == resp.op = "buildStageProgress"

StatusOfTask(task) ==
    IF task.t = "object" /\ Property(task.o, "status").t = "string"
    THEN task.o["status"].s ELSE "pending"

ReportOf(task) ==
    LET parsed == parseAnalysisReport(task)
    IN  IF parsed.t = "object" THEN parsed.o ELSE <<>>

HasContent(task, key) == hasValue(Property(ReportOf(task), key))

(* The stage keys some stage time is recorded for, on the task or in its   *)
(* report.                                                                 *)
RecordedStageTimes(task) ==
    LET own == IF task.t = "object" THEN Property(task.o, "stage_times") ELSE Undefined
        inReport == Property(ReportOf(task), "__stage_times")
    IN  (IF own.t = "object" THEN DOMAIN own.o ELSE {})
            \cup (IF inReport.t = "object" THEN DOMAIN inReport.o ELSE {})

SequentialStages == {"investment_plan", "final_trade_decision"}

StageStatus(stages, key) ==
    LET i == CHOOSE i \in DOMAIN stages : stages[i].key = key IN stages[i].status

C30_StageProgressOfProcessingAndFailed ==
    Rendered =>
        LET task == resp.input
            stages == resp.body
            keys == {stages[i].key : i \in DOMAIN stages}
            running == {k \in SequentialStages : StageStatus(stages, k) = "processing"}
        IN
        /\ Len(stages) = 7
        /\ keys = PARALLEL_ANALYST_STAGE_SET \cup SequentialStages
        /\ StatusOfTask(task) = "processing" /\ RecordedStageTimes(task) = {}
            => /\ (\E k \in PARALLEL_ANALYST_STAGE_SET : ~HasContent(task, k))
                    => running = {}
               /\ Cardinality(running) <= 1
               /\ "investment_plan" \in running
                    => ~HasContent(task, "investment_plan")
               /\ "final_trade_decision" \in running
                    => /\ ~HasContent(task, "final_trade_decision")
                       /\ HasContent(task, "investment_plan")
               /\ \A k \in keys :
                    HasContent(task, k) => StageStatus(stages, k) = "completed"
        /\ StatusOfTask(task) = "failed"
            => \A k \in keys : StageStatus(stages, k) = "failed"

(* A processing task without stage times whose five analyst reports are    *)
(* in and whose investment plan is not: the plan is reported processing,   *)
(* the final decision still pending.                                       *)
C30_Witness ==
    /\ Rendered
    /\ StatusOfTask(resp.input) = "processing"
    /\ RecordedStageTimes(resp.input) = {}
    /\ \A k \in PARALLEL_ANALYST_STAGE_SET : HasContent(resp.input, k)
    /\ \A k \in SequentialStages : ~HasContent(resp.input, k)
    /\ StageStatus(resp.body, "investment_plan") = "processing"
    /\ StageStatus(resp.body, "final_trade_decision") = "pending"
    /\ StageStatus(resp.body, "market_report") = "completed"

(***************************************************************************)
(* C23: The client's poll loop always terminates.  It makes at most        *)
(* maxAttempts status checks, one at a time and each but the first after a *)
(* wait; it returns the task at the first check answered with status       *)
(* completed or failed and makes no further check; it ends with the error  *)
(* of the first check that fails (an answer that is not 2xx, or no answer),*)
(* and otherwise with a timeout error after maxAttempts checks.  Ending    *)
(* with an error or a timeout changes nothing on the gateway.              *)
(***************************************************************************)
Started == poller.pc # "idle"
Done == poller.pc = "done"

PollBounds ==
    Started =>
        /\ poller.checks <= poller.maxAttempts
        /\ poller.checks <= poller.waits + 1
        /\ poller.pc = "await" => poller.checks = poller.waits + 1
        /\ poller.pc \in {"check", "wait"} => requests[1].pc = "idle"
        /\ requests[2].pc = "idle"

ReturnedTask ==
    /\ poller.outcome = "task"
    /\ poller.result.Status \in {"completed", "failed"}
    /\ poller.result.TaskID = poller.taskID

TimedOut ==
    /\ poller.outcome = "timeout"
    /\ poller.checks = poller.maxAttempts
    /\ poller.waits = poller.maxAttempts

Threw == poller.outcome = "error" /\ poller.checks >= 1

(* The step receives the gateway's answer to a check. *)
Receives == poller.pc = "await" /\ poller'.pc # "await"

PollSteps ==
    /\ Receives =>
        /\ resp.op = "GetAnalysisResult" /\ resp.input = poller.taskID
        /\ IF resp.code \notin 200..299
           THEN poller'.pc = "done" /\ poller'.outcome = "error"
           ELSE IF resp.body.Status \in {"completed", "failed"}
           THEN /\ poller'.pc = "done" /\ poller'.outcome = "task"
                /\ poller'.result = resp.body
           ELSE poller'.pc = "wait"
    /\ Done => poller' = poller /\ UNCHANGED requests
    /\ ~Done /\ poller'.pc = "done" => UNCHANGED <<tasks, decisions, requests>>

C23_PollTerminates ==
    /\ [](PollBounds /\ (Done => ReturnedTask \/ Threw \/ TimedOut))
    /\ [][PollSteps]_vars
    /\ (Started ~> Done)

(* The loop gave up after maxAttempts checks of a task that stayed         *)
(* pending or processing.                                                  *)
C23_Witness ==
    /\ Done
    /\ TimedOut
    /\ poller.maxAttempts = MaxPollAttempts
    /\ \E i \in Rows :
        tasks[i].TaskID = poller.taskID /\ tasks[i].Status \in {"pending", "processing"}

(* C23 as stated: a loop that has ended returned a completed or failed     *)
(* task or timed out after maxAttempts checks.                             *)
C23_ReturnsTaskOrTimesOut ==
    Done => ReturnedTask \/ TimedOut

(***************************************************************************)
(* C29: When the owner keeps reconciling a task serially and the provider  *)
(* from some point on is unreachable, answers non-200 or reports completed *)
(* or failed, the task's stored status eventually is completed or failed   *)
(* and stays so.                                                           *)
(***************************************************************************)
C29_ReconcileSettles ==
    <>[](\A i \in Rows : Terminal(tasks[i].Status))

(***************************************************************************)
(* C24: Every write to the article set (a successful CreateArticle, every  *)
(* RefreshRSSArticles run) is eventually followed by the deletion of the   *)
(* cache entry of key "articles", and the entry only ever changes by being *)
(* deleted or by being set to a list read from the table.                  *)
(***************************************************************************)
Wrote(h) ==
    /\ handlers[h].pc \in {"invalidate", "done"}
    /\ handlers[h].op \in {"CreateArticle", "RefreshRSSArticles"}
    /\ handlers[h].v.wrote

DeletedEntry(h) ==
    /\ handlers[h].pc = "done"
    /\ handlers[h].op \in {"CreateArticle", "RefreshRSSArticles"}
    /\ handlers[h].v.deleted

EntryRebuilt ==
    \E h \in Slots :
        /\ handlers[h].pc = "set"
        /\ handlers'[h].pc = "done"
        /\ cache' = Entry(handlers[h].v.list)

C24_WriteInvalidatesCache ==
    /\ \A h \in Slots : Wrote(h) ~> DeletedEntry(h)
    /\ [][cache' # cache => cache' = NoEntry \/ EntryRebuilt]_vars

(***************************************************************************)
(* C25: Whenever no article request and no invalidation is in flight, a    *)
(* cache entry that is present holds the list the table's query returns at *)
(* that moment.                                                            *)
(***************************************************************************)
Quiescent == \A h \in Slots : handlers[h].pc \in {"idle", "done"}

C25_CacheCoherentAtQuiescence ==
    Quiescent /\ cache.present => cache.json = FindArticles(articles)

(***************************************************************************)
(* C26: A RefreshRSSArticles run inserts at most one article per active    *)
(* feed, the newest item the feed served it, and only when no stored       *)
(* article has the item's link or its non-empty GUID.  With the runs one   *)
(* after the other, a run that is served what an earlier run was served    *)
(* inserts nothing, and no two stored articles share a link.               *)
(***************************************************************************)
RefreshRun(h) ==
    /\ handlers[h].pc \in {"invalidate", "done"}
    /\ handlers[h].op = "RefreshRSSArticles"

(* The usable items of a feed document none of which is more recent than   *)
(* it: dated items come before undated ones.                               *)
NewestLinks(remote) ==
    LET usable == {i \in DOMAIN remote.items :
                      remote.items[i].Link # "" /\ remote.items[i].Title # ""}
        Beats(i, j) ==
            /\ remote.items[i].PublishedAt # NoTime
            /\ \/ remote.items[j].PublishedAt = NoTime
               \/ remote.items[i].PublishedAt > remote.items[j].PublishedAt
    IN  {remote.items[i].Link : i \in {i \in usable : \A j \in usable : ~Beats(j, i)}}

(* The step is a run's insert of a row. *)
RefreshInserts(h) ==
    /\ handlers[h].pc = "create"
    /\ handlers'[h] # handlers[h]
    /\ Len(articles') = Len(articles) + 1

RefreshInsertIsNewAndNewest ==
    \A h \in Slots :
        RefreshInserts(h) =>
            LET row == articles'[Len(articles')]
                served == handlers[h].v.fetched[handlers[h].v.i]
            IN  /\ served.URL = row.SourceURL
                /\ served.remote.kind = "items"
                /\ row.Link \in NewestLinks(served.remote)
                /\ \A i \in 1..Len(articles) :
                    /\ articles[i].Link # row.Link
                    /\ row.GUID # "" => articles[i].GUID # row.GUID

OnePerFeed ==
    \A h \in Slots :
        handlers[h].pc # "idle" /\ handlers[h].op = "RefreshRSSArticles"
            => LET v == handlers[h].v IN
               /\ Len(v.inserted) <= Len(v.feeds)
               /\ \A i, j \in 1..Len(v.inserted) :
                    i # j => v.inserted[i].SourceURL # v.inserted[j].SourceURL
               /\ \A i \in 1..Len(v.inserted) :
                    \E f \in 1..Len(v.feeds) :
                        /\ feeds[v.feeds[f]].URL = v.inserted[i].SourceURL
                        /\ feeds[v.feeds[f]].Active

SecondRunInsertsNothing ==
    \A h1, h2 \in Slots :
        /\ h1 < h2
        /\ RefreshRun(h1)
        /\ RefreshRun(h2)
        /\ handlers[h1].v.fetched = handlers[h2].v.fetched
        => handlers[h2].v.inserted = <<>>

LinksDistinct ==
    \A i, j \in 1..Len(articles) : i # j => articles[i].Link # articles[j].Link

C26_RefreshInsertsNewestOnce ==
    /\ [](OnePerFeed /\ SecondRunInsertsNothing /\ LinksDistinct)
    /\ [][RefreshInsertIsNewAndNewest]_vars

(* Two runs were served the same two documents; the first inserted the     *)
(* newest item of the default feed, the second nothing.                    *)
C26_Witness ==
    \E h1, h2 \in Slots :
        /\ h1 < h2
        /\ RefreshRun(h1)
        /\ RefreshRun(h2)
        /\ handlers[h1].v.fetched = handlers[h2].v.fetched
        /\ Len(handlers[h1].v.fetched) = 2
        /\ Len(handlers[h1].v.inserted) >= 1
        /\ handlers[h1].v.inserted[1].Link = ChipItem.Link
        /\ handlers[h2].v.inserted = <<>>

====
